---- MODULE Spec2Model ----
(***************************************************************************)
(* Trace viewer of agk (internal/tui): span parsing, tree construction,    *)
(* flattening, metrics, live-tail ingestion and the key-driven explorer.   *)
(*                                                                         *)
(* Encoding of the Go values:                                              *)
(*   - a SpanID is a natural number 1..NumIds; EmptyID stands for the      *)
(*     empty string, ZeroSpanID for "0000000000000000", and UnknownID for  *)
(*     an identifier that no span of the trace carries;                    *)
(*   - a timestamp string is a natural number; 0 stands for an empty or    *)
(*     unparseable string, which time.Parse turns into the zero time;      *)
(*   - a *SpanNode is the SpanID under which nodeMap holds it, Nil is the  *)
(*     nil pointer; the heap of nodes is the function "nodes";             *)
(*   - a string whose characters matter (Span.Name) is a tuple of          *)
(*     one-character strings;                                              *)
(*   - a line of trace.jsonl is a Span record or BadLine (not JSON).       *)
(***************************************************************************)
EXTENDS Integers, Sequences, FiniteSets, TLC

\* ---------------------------------------------------------------- bounds
NumIds == 3
MaxLines == 3
MaxBuildSpans == 3
MaxPanelLines == 2
MaxTime == 2
MaxRuns == 2
MaxNavRuns == 1
MaxEvents == 4
MaxQuery == 1
MaxNameParts == 3
MaxNamed == 2
MaxAttrs == 3
MaxSummaryLines == 2
MaxTailRecords == 4

\* ------------------------------------------------------------- constants
EmptyID == 0
ZeroSpanID == -1
UnknownID == NumIds + 1
Nil == 0
StatusUnset == "Unset"
BadLine == [bad |-> TRUE]

RunListView == 0
TreeView == 1
DetailView == 2

FocusTree == 0
FocusDetails == 1
FocusMetadata == 2

TabOverview == 0
TabPrompt == 1
TabResponse == 2
TabAttributes == 3
TabTiming == 4

\* ------------------------------------------------------ generic helpers
Range(s) == {s[i] : i \in DOMAIN s}

Perms(S) == {f \in [1..Cardinality(S) -> S] : \A i, j \in 1..Cardinality(S) : i # j => f[i] # f[j]}

SeqsUpTo(S, n) == UNION {[1..k -> S] : k \in 0..n}

RECURSIVE IndexOf(_, _, _)
IndexOf(s, x, i) ==
    IF i > Len(s) THEN 0
    ELSE IF s[i] = x THEN i
    ELSE IndexOf(s, x, i + 1)

ToLowerChar(c) ==
    CASE c = "A" -> "a"
      [] c = "B" -> "b"
      [] c = "C" -> "c"
      [] c = "D" -> "d"
      [] c = "E" -> "e"
      [] c = "F" -> "f"
      [] c = "G" -> "g"
      [] c = "H" -> "h"
      [] c = "I" -> "i"
      [] c = "J" -> "j"
      [] c = "K" -> "k"
      [] c = "L" -> "l"
      [] c = "M" -> "m"
      [] c = "N" -> "n"
      [] c = "O" -> "o"
      [] c = "P" -> "p"
      [] c = "Q" -> "q"
      [] c = "R" -> "r"
      [] c = "S" -> "s"
      [] c = "T" -> "t"
      [] c = "U" -> "u"
      [] c = "V" -> "v"
      [] c = "W" -> "w"
      [] c = "X" -> "x"
      [] c = "Y" -> "y"
      [] c = "Z" -> "z"
      [] OTHER -> c

ToLower(s) == [i \in DOMAIN s |-> ToLowerChar(s[i])]

Contains(s, sub) ==
    \E i \in 0..(Len(s) - Len(sub)) : \A k \in 1..Len(sub) : s[i + k] = sub[k]

\* ------------------------------------------------------------ span_tree.go
NumberValue(n) == [kind |-> "number", num |-> n]
StringValue(s) == [kind |-> "string", str |-> s]

KeyStreamTokens == "agk.stream.tokens"
KeyTotalTokens == "llm.usage.total_tokens"

NameStep == <<"s", "t", "e", "p">>
NameLLM == <<"L", "L", "M">>
SubLLM == <<"l", "l", "m">>

Span(id, parent, name, start, end, code, attrs) ==
    [SpanID |-> id, ParentSpanID |-> parent, Name |-> name,
     StartTime |-> start, EndTime |-> end, Code |-> code, Attributes |-> attrs]

IsSpanLine(line) == line # BadLine

ParseSpans(lines) == SelectSeq(lines, IsSpanLine)

calculateDuration(startTime, endTime) ==
    IF startTime = 0 \/ endTime = 0 THEN 0 ELSE endTime - startTime

GetAllAttributes(s) ==
    LET keys == {s.Attributes[i].Key : i \in DOMAIN s.Attributes}
        last(k) == CHOOSE i \in DOMAIN s.Attributes :
                      /\ s.Attributes[i].Key = k
                      /\ \A j \in DOMAIN s.Attributes : j > i => s.Attributes[j].Key # k
    IN [k \in keys |-> s.Attributes[last(k)].Value]

\* the first attribute with the key, as the loop returns at once
GetAttribute(s, key) ==
    LET at == {i \in DOMAIN s.Attributes : s.Attributes[i].Key = key}
    IN IF at = {} THEN [val |-> Nil, ok |-> FALSE]
       ELSE [val |-> s.Attributes[CHOOSE i \in at : \A j \in at : i <= j].Value, ok |-> TRUE]

KeyStepName == "agk.workflow.step_name"
KeyModel == "agk.llm.model"
KeyProvider == "agk.llm.provider"

\* the characters of the strings the model uses
CharsOf(str) ==
    CASE str = "" -> <<>>
      [] str = "Ok" -> <<"O", "k">>
      [] str = "Error" -> <<"E", "r", "r", "o", "r">>
      [] str = StatusUnset -> <<"U", "n", "s", "e", "t">>
      [] str = KeyStreamTokens -> <<"a", "g", "k", ".", "s", "t", "r", "e", "a", "m", ".", "t", "o", "k", "e", "n", "s">>
      [] str = KeyTotalTokens -> <<"l", "l", "m", ".", "u", "s", "a", "g", "e", ".", "t", "o", "t", "a", "l", "_", "t", "o", "k", "e", "n", "s">>
      [] str = KeyStepName -> <<"a", "g", "k", ".", "w", "o", "r", "k", "f", "l", "o", "w", ".", "s", "t", "e", "p", "_", "n", "a", "m", "e">>
      [] str = KeyModel -> <<"a", "g", "k", ".", "l", "l", "m", ".", "m", "o", "d", "e", "l">>
      [] str = KeyProvider -> <<"a", "g", "k", ".", "l", "l", "m", ".", "p", "r", "o", "v", "i", "d", "e", "r">>
      [] str = "workflow.step" -> <<"w", "o", "r", "k", "f", "l", "o", "w", ".", "s", "t", "e", "p">>
      [] str = "agk.workflow.sequential" -> <<"a", "g", "k", ".", "w", "o", "r", "k", "f", "l", "o", "w", ".", "s", "e", "q", "u", "e", "n", "t", "i", "a", "l">>
      [] str = "agk.workflow.parallel" -> <<"a", "g", "k", ".", "w", "o", "r", "k", "f", "l", "o", "w", ".", "p", "a", "r", "a", "l", "l", "e", "l">>
      [] str = "agk.workflow.dag" -> <<"a", "g", "k", ".", "w", "o", "r", "k", "f", "l", "o", "w", ".", "d", "a", "g">>
      [] str = "agk.workflow.loop" -> <<"a", "g", "k", ".", "w", "o", "r", "k", "f", "l", "o", "w", ".", "l", "o", "o", "p">>
      [] str = "agk.agent.run" -> <<"a", "g", "k", ".", "a", "g", "e", "n", "t", ".", "r", "u", "n">>
      [] str = "Sequential Workflow" -> <<"S", "e", "q", "u", "e", "n", "t", "i", "a", "l", " ", "W", "o", "r", "k", "f", "l", "o", "w">>
      [] str = "Parallel Workflow" -> <<"P", "a", "r", "a", "l", "l", "e", "l", " ", "W", "o", "r", "k", "f", "l", "o", "w">>
      [] str = "DAG Workflow" -> <<"D", "A", "G", " ", "W", "o", "r", "k", "f", "l", "o", "w">>
      [] str = "Loop Workflow" -> <<"L", "o", "o", "p", " ", "W", "o", "r", "k", "f", "l", "o", "w">>
      [] str = "workflow.sequential" -> <<"w", "o", "r", "k", "f", "l", "o", "w", ".", "s", "e", "q", "u", "e", "n", "t", "i", "a", "l">>
      [] str = "Workflow.Step" -> <<"W", "o", "r", "k", "f", "l", "o", "w", ".", "S", "t", "e", "p">>
      [] str = "Agent" -> <<"A", "g", "e", "n", "t">>

DigitChar(d) == <<"0", "1", "2", "3", "4", "5", "6", "7", "8", "9">>[d + 1]

RECURSIVE Digits(_)
Digits(n) == IF n < 10 THEN <<DigitChar(n)>> ELSE Digits(n \div 10) \o <<DigitChar(n % 10)>>

\* fmt.Sprintf("%v", v)
Sprintv(v) == IF v.kind = "number" THEN Digits(v.num) ELSE v.str

\* the emoji of the labels are single characters, written by code point
GetFriendlyName(s) ==
    LET attrs == GetAllAttributes(s)
        name == ToLower(s.Name)
        has(k) == k \in DOMAIN attrs
    IN IF Contains(name, CharsOf("workflow.step")) /\ has(KeyStepName)
       THEN <<"U+1F539", " ">> \o Sprintv(attrs[KeyStepName])
       ELSE IF Contains(name, CharsOf("agk.workflow.sequential"))
       THEN <<"U+1F4CB", " ">> \o CharsOf("Sequential Workflow")
       ELSE IF Contains(name, CharsOf("agk.workflow.parallel"))
       THEN <<"U+26A1", " ">> \o CharsOf("Parallel Workflow")
       ELSE IF Contains(name, CharsOf("agk.workflow.dag"))
       THEN <<"U+1F500", " ">> \o CharsOf("DAG Workflow")
       ELSE IF Contains(name, CharsOf("agk.workflow.loop"))
       THEN <<"U+1F504", " ">> \o CharsOf("Loop Workflow")
       ELSE IF Contains(name, SubLLM) /\ has(KeyModel)
       THEN <<"U+1F916", " ">>
            \o (IF has(KeyProvider) THEN Sprintv(attrs[KeyProvider]) ELSE SubLLM)
            \o <<" ", "[">> \o Sprintv(attrs[KeyModel]) \o <<"]">>
       ELSE IF Contains(name, CharsOf("agk.agent.run"))
       THEN (IF has(KeyModel)
             THEN <<"U+1F916", " ">> \o CharsOf("Agent") \o <<" ", "[">> \o Sprintv(attrs[KeyModel]) \o <<"]">>
             ELSE <<"U+1F916", " ">> \o CharsOf("Agent"))
       ELSE s.Name

\* one pass of the inner loop of sortNodesByTime: positions j..n against i
RECURSIVE sortInner(_, _, _, _)
sortInner(h, s, i, j) ==
    IF j > Len(s) THEN s
    ELSE IF h[s[i]].Span.StartTime > h[s[j]].Span.StartTime
         THEN sortInner(h, [s EXCEPT ![i] = s[j], ![j] = s[i]], i, j + 1)
         ELSE sortInner(h, s, i, j + 1)

RECURSIVE sortOuter(_, _, _)
sortOuter(h, s, i) ==
    IF i >= Len(s) THEN s
    ELSE sortOuter(h, sortInner(h, s, i, i + 1), i + 1)

sortNodesByTime(h, s) == sortOuter(h, s, 1)

RECURSIVE setDepths(_, _, _)
RECURSIVE setDepthsEach(_, _, _, _)
\* a setDepths that gives the children the depth of their parent
setDepthsMut(h, node, depth) ==
    LET h1 == [h EXCEPT ![node].Depth = depth,
                        ![node].Children = sortNodesByTime(h, @)]
    IN setDepthsEach(h1, h1[node].Children, 1, depth)

setDepths(h, node, depth) ==
    LET h1 == [h EXCEPT ![node].Depth = depth,
                        ![node].Children = sortNodesByTime(h, @)]
    IN setDepthsEach(h1, h1[node].Children, 1, depth + 1)

setDepthsEach(h, s, i, depth) ==
    IF i > Len(s) THEN h
    ELSE setDepthsEach(setDepths(h, s[i], depth), s, i + 1, depth)

\* a root test without the "parent not found" branch
IsRootParentMut(parentID, ids) == parentID = EmptyID \/ parentID = ZeroSpanID

\* the test of BuildSpanTree's loop: no parent id, or none in nodeMap
IsRootParent(parentID, ids) ==
    parentID = EmptyID \/ parentID = ZeroSpanID \/ parentID \notin ids

\* order: the order in which Go's range visits the keys of nodeMap
BuildSpanTree(spans, order) ==
    LET ids == {spans[i].SpanID : i \in DOMAIN spans}
        last(id) == CHOOSE i \in DOMAIN spans :
                       /\ spans[i].SpanID = id
                       /\ \A j \in DOMAIN spans : j > i => spans[j].SpanID # id
        sp(id) == spans[last(id)]
        isRoot(id) == IsRootParent(sp(id).ParentSpanID, ids)
        childOf(p) == LET Test(c) == c \in ids /\ ~isRoot(c) /\ sp(c).ParentSpanID = p
                      IN SelectSeq(order, Test)
        IsRootKey(c) == c \in ids /\ isRoot(c)
        nodeMap == [id \in ids |->
                      [Span |-> sp(id),
                       Children |-> childOf(id),
                       Depth |-> 0,
                       Expanded |-> TRUE,
                       Parent |-> IF isRoot(id) THEN Nil ELSE sp(id).ParentSpanID,
                       DurationMs |-> calculateDuration(sp(id).StartTime, sp(id).EndTime)]]
        roots0 == SelectSeq(order, IsRootKey)
        h == setDepthsEach(nodeMap, roots0, 1, 0)
    IN [roots |-> sortNodesByTime(h, roots0), nodes |-> h]

RECURSIVE flattenNode(_, _)
RECURSIVE flattenEach(_, _, _)
flattenNode(h, node) ==
    IF h[node].Expanded THEN <<node>> \o flattenEach(h, h[node].Children, 1)
    ELSE <<node>>

flattenEach(h, s, i) ==
    IF i > Len(s) THEN <<>>
    ELSE flattenNode(h, s[i]) \o flattenEach(h, s, i + 1)

\* a FlattenTree that skips the first root
FlattenTreeMut(h, rs) == flattenEach(h, rs, 2)

FlattenTree(h, rs) == flattenEach(h, rs, 1)

HasChildren(h, node) == Len(h[node].Children) > 0

\* ---------------------------------------------------- metrics (part_006)
\* only the streamed-token attribute is read
TokensUnderMut(attrs, key) ==
    IF key = KeyStreamTokens /\ key \in DOMAIN attrs /\ attrs[key].kind = "number"
    THEN attrs[key].num ELSE 0

TokensUnder(attrs, key) ==
    IF key \in DOMAIN attrs /\ attrs[key].kind = "number" THEN attrs[key].num ELSE 0

InsertAt(s, i, x) == SubSeq(s, 1, i - 1) \o <<x>> \o SubSeq(s, i, Len(s))

\* an updateTop3 that appends without comparing durations
updateTop3Mut(h, top3, node) ==
    IF Len(top3) < 3 THEN Append(top3, node) ELSE top3

updateTop3(h, top3, node) ==
    LET bigger == {i \in DOMAIN top3 : h[node].DurationMs > h[top3[i]].DurationMs}
        first == CHOOSE i \in bigger : \A j \in bigger : i <= j
        t1 == IF bigger # {} THEN InsertAt(top3, first, node)
              ELSE IF Len(top3) < 3 THEN Append(top3, node)
              ELSE top3
    IN IF Len(t1) > 3 THEN SubSeq(t1, 1, 3) ELSE t1

\* a ProcessNode that counts "Unset" as an error status
ProcessNodeMut(h, mc, node) ==
    LET attrs == GetAllAttributes(h[node].Span)
        tokens == TokensUnder(attrs, KeyStreamTokens) + TokensUnder(attrs, KeyTotalTokens)
        code == h[node].Span.Code
        errs == IF code # "" /\ code # "Ok" THEN 1 ELSE 0
        eligible == ~HasChildren(h, node) \/ Contains(ToLower(h[node].Span.Name), SubLLM)
        slowest == IF mc.Slowest = Nil \/ h[node].DurationMs > h[mc.Slowest].DurationMs
                   THEN node ELSE mc.Slowest
    IN [TotalTokens |-> mc.TotalTokens + tokens,
        ErrorCount |-> mc.ErrorCount + errs,
        Slowest |-> IF eligible THEN slowest ELSE mc.Slowest,
        Top3 |-> IF eligible THEN updateTop3(h, mc.Top3, node) ELSE mc.Top3]

\* a ProcessNode that tracks every node as a candidate for slowest and top 3
ProcessNodeAllMut(h, mc, node) ==
    LET attrs == GetAllAttributes(h[node].Span)
        tokens == TokensUnder(attrs, KeyStreamTokens) + TokensUnder(attrs, KeyTotalTokens)
        code == h[node].Span.Code
        errs == IF code # "" /\ code # StatusUnset /\ code # "Ok" THEN 1 ELSE 0
        slowest == IF mc.Slowest = Nil \/ h[node].DurationMs > h[mc.Slowest].DurationMs
                   THEN node ELSE mc.Slowest
    IN [TotalTokens |-> mc.TotalTokens + tokens,
        ErrorCount |-> mc.ErrorCount + errs,
        Slowest |-> slowest,
        Top3 |-> updateTop3(h, mc.Top3, node)]

ProcessNode(h, mc, node) ==
    LET attrs == GetAllAttributes(h[node].Span)
        tokens == TokensUnder(attrs, KeyStreamTokens) + TokensUnder(attrs, KeyTotalTokens)
        code == h[node].Span.Code
        errs == IF code # "" /\ code # StatusUnset /\ code # "Ok" THEN 1 ELSE 0
        eligible == ~HasChildren(h, node) \/ Contains(ToLower(h[node].Span.Name), SubLLM)
        slowest == IF mc.Slowest = Nil \/ h[node].DurationMs > h[mc.Slowest].DurationMs
                   THEN node ELSE mc.Slowest
    IN [TotalTokens |-> mc.TotalTokens + tokens,
        ErrorCount |-> mc.ErrorCount + errs,
        Slowest |-> IF eligible THEN slowest ELSE mc.Slowest,
        Top3 |-> IF eligible THEN updateTop3(h, mc.Top3, node) ELSE mc.Top3]

RECURSIVE calculateMetricsFrom(_, _, _, _)
calculateMetricsFrom(h, mc, s, i) ==
    IF i > Len(s) THEN mc
    ELSE calculateMetricsFrom(h, ProcessNode(h, mc, s[i]), s, i + 1)

calculateMetrics(h, s) ==
    calculateMetricsFrom(h, [TotalTokens |-> 0, ErrorCount |-> 0, Slowest |-> Nil, Top3 |-> <<>>], s, 1)

\* ------------------------------------------------------ Model (part_006)
\* The Model struct is the record m; the viewports, width, height, runID,
\* lastUpdate and estimatedCost (totalTokens * 0.000002) carry no behaviour
\* and are left out.  Operators take and return the record, as the Go
\* methods take and return Model by value; the nodes are shared by pointer
\* and live in m.nodes.  The field panicked is no field of the struct: it
\* is TRUE in the value an operator gives where the Go method panics.
computeMetrics(m) ==
    LET mc == calculateMetrics(m.nodes, m.visibleNodes)
    IN [m EXCEPT !.totalTokens = mc.TotalTokens,
                 !.errorCount = mc.ErrorCount,
                 !.slowestSpan = mc.Slowest,
                 !.top3Slowest = mc.Top3]

ZeroModel ==
    [allRuns |-> <<>>, runCursor |-> 0, selectedRun |-> 0,
     manifest |-> [RunID |-> 0, SpanCount |-> 0],
     roots |-> <<>>, nodes |-> <<>>, visibleNodes |-> <<>>,
     cursor |-> 0, viewMode |-> RunListView, focusArea |-> FocusTree,
     selectedTab |-> TabOverview, ready |-> FALSE,
     totalTokens |-> 0, errorCount |-> 0, slowestSpan |-> Nil, top3Slowest |-> <<>>,
     tracePath |-> "", lastOffset |-> 0, isLive |-> FALSE,
     searchMode |-> FALSE, searchQuery |-> <<>>, searchMatches |-> <<>>, searchIndex |-> 0,
     panicked |-> FALSE]

\* the handler indexed visibleNodes out of range: the goroutine panics, no
\* Model is returned and the program ends
Panic(m) == [m EXCEPT !.panicked = TRUE]

\* statSize: what os.Stat reports for tracePath when the viewer is created
NewTraceViewerWithPath(manifest, spans, tracePath, statSize, order) ==
    LET t == BuildSpanTree(spans, order)
        visible == FlattenTree(t.nodes, t.roots)
        mc == calculateMetrics(t.nodes, visible)
    IN [ZeroModel EXCEPT
          !.manifest = manifest,
          !.roots = t.roots, !.nodes = t.nodes, !.visibleNodes = visible,
          !.cursor = 0, !.viewMode = TreeView, !.focusArea = FocusTree,
          !.selectedTab = TabOverview,
          !.totalTokens = mc.TotalTokens, !.errorCount = mc.ErrorCount,
          !.slowestSpan = mc.Slowest, !.top3Slowest = mc.Top3,
          !.tracePath = tracePath,
          !.lastOffset = IF tracePath # "" THEN statSize ELSE 0,
          !.isLive = (tracePath # ""),
          !.searchMode = FALSE, !.searchQuery = <<>>, !.searchMatches = <<>>,
          !.searchIndex = -1]

\* searchMatches holds pointers to nodes; once the forest is rebuilt they
\* point to nodes of the replaced forest, equal to no node of the new one
Stale(matches) == [i \in DOMAIN matches |-> [matches[i] EXCEPT !.stale = TRUE]]

loadRun(m, index, order) ==
    IF index < 0 \/ index >= Len(m.allRuns) THEN m
    ELSE LET run == m.allRuns[index + 1]
             t == BuildSpanTree(run.Spans, order)
         IN computeMetrics([m EXCEPT !.selectedRun = index,
                                     !.manifest = run.Manifest,
                                     !.roots = t.roots, !.nodes = t.nodes,
                                     !.visibleNodes = FlattenTree(t.nodes, t.roots),
                                     !.searchMatches = Stale(@),
                                     !.cursor = 0])

NewTraceViewer(manifest, spans, order) == NewTraceViewerWithPath(manifest, spans, "", 0, order)

NewTraceExplorer(runs, order) ==
    LET m0 == [ZeroModel EXCEPT !.allRuns = runs, !.runCursor = 0, !.viewMode = RunListView]
    IN IF Len(runs) > 0 THEN loadRun(m0, 0, order) ELSE m0

\* number of tick messages the command returned by tickCmd delivers
tickCmd == 1

ModelInit(m) == IF m.isLive /\ m.tracePath # "" THEN tickCmd ELSE 0

collectAllSpans(m) == [i \in DOMAIN m.visibleNodes |-> m.nodes[m.visibleNodes[i]].Span]

addNewSpans(m, newSpans, order) ==
    LET allSpans == collectAllSpans(m) \o newSpans
        t == BuildSpanTree(allSpans, order)
        m1 == [m EXCEPT !.roots = t.roots, !.nodes = t.nodes,
                        !.visibleNodes = FlattenTree(t.nodes, t.roots),
                        !.searchMatches = Stale(@)]
    IN [computeMetrics(m1) EXCEPT !.manifest.SpanCount = Len(allSpans)]

\* a checkFileUpdates that reads when the size equals lastOffset
checkFileUpdatesMut(m, statSize, content) ==
    IF statSize < m.lastOffset THEN [m |-> m, newSpans |-> <<>>]
    ELSE [m |-> [m EXCEPT !.lastOffset = statSize], newSpans |-> ParseSpans(content)]

\* statSize: the size os.Stat reports; content: the lines the scanner finds
\* from lastOffset to the end of the file at the time it reads
checkFileUpdates(m, statSize, content) ==
    IF statSize <= m.lastOffset THEN [m |-> m, newSpans |-> <<>>]
    ELSE [m |-> [m EXCEPT !.lastOffset = statSize], newSpans |-> ParseSpans(content)]

\* ----------------------------------------------- tree handlers (part_006)
NodeAtCursor(m) == m.visibleNodes[m.cursor + 1]

Reflatten(m, h) == [m EXCEPT !.nodes = h, !.visibleNodes = FlattenTree(h, m.roots)]

ToggleExpanded(h, node) == [h EXCEPT ![node].Expanded = ~@]

\* a navigation that wraps around at both ends
handleTreeNavigationMut(m, key) ==
    IF Len(m.visibleNodes) = 0 THEN m
    ELSE IF key \in {"up", "k"}
    THEN [m EXCEPT !.cursor = (@ + Len(m.visibleNodes) - 1) % Len(m.visibleNodes)]
    ELSE IF key \in {"down", "j"}
    THEN [m EXCEPT !.cursor = (@ + 1) % Len(m.visibleNodes)]
    ELSE m

handleTreeNavigation(m, key) ==
    IF key \in {"up", "k"}
    THEN (IF m.cursor > 0 THEN [m EXCEPT !.cursor = @ - 1] ELSE m)
    ELSE IF key \in {"down", "j"}
    THEN (IF m.cursor < Len(m.visibleNodes) - 1 THEN [m EXCEPT !.cursor = @ + 1] ELSE m)
    ELSE m

handleTreeSelection(m) ==
    IF m.cursor < Len(m.visibleNodes)
    THEN IF HasChildren(m.nodes, NodeAtCursor(m))
         THEN Reflatten(m, ToggleExpanded(m.nodes, NodeAtCursor(m)))
         ELSE [m EXCEPT !.viewMode = DetailView]
    ELSE m

\* a handleTreeCollapse that does not recompute the visible list
handleTreeCollapseMut(m) ==
    IF m.cursor < Len(m.visibleNodes)
    THEN LET node == NodeAtCursor(m)
             at == IndexOf(m.visibleNodes, m.nodes[node].Parent, 1)
         IN IF HasChildren(m.nodes, node) /\ m.nodes[node].Expanded
            THEN [m EXCEPT !.nodes = [m.nodes EXCEPT ![node].Expanded = FALSE]]
            ELSE IF m.nodes[node].Parent # Nil /\ at # 0
                 THEN [m EXCEPT !.cursor = at - 1]
                 ELSE m
    ELSE m

handleTreeCollapse(m) ==
    IF m.cursor < Len(m.visibleNodes)
    THEN LET node == NodeAtCursor(m)
             at == IndexOf(m.visibleNodes, m.nodes[node].Parent, 1)
         IN IF HasChildren(m.nodes, node) /\ m.nodes[node].Expanded
            THEN Reflatten(m, [m.nodes EXCEPT ![node].Expanded = FALSE])
            ELSE IF m.nodes[node].Parent # Nil /\ at # 0
                 THEN [m EXCEPT !.cursor = at - 1]
                 ELSE m
    ELSE m

handleTreeToggle(m) ==
    IF m.cursor < Len(m.visibleNodes) /\ HasChildren(m.nodes, NodeAtCursor(m))
    THEN Reflatten(m, ToggleExpanded(m.nodes, NodeAtCursor(m)))
    ELSE m

handleRunSwitching(m, key, order) ==
    IF key = "[" /\ Len(m.allRuns) > 0 /\ m.selectedRun > 0
    THEN loadRun([m EXCEPT !.selectedRun = @ - 1, !.runCursor = m.selectedRun - 1],
                 m.selectedRun - 1, order)
    ELSE IF key = "]" /\ Len(m.allRuns) > 0 /\ m.selectedRun < Len(m.allRuns) - 1
    THEN loadRun([m EXCEPT !.selectedRun = @ + 1, !.runCursor = m.selectedRun + 1],
                 m.selectedRun + 1, order)
    ELSE m

\* ---------------------------------------------------- error jumps (part_006)
isErrorNode(h, node) ==
    /\ h[node].Span.Code # ""
    /\ h[node].Span.Code # StatusUnset
    /\ h[node].Span.Code # "Ok"

RECURSIVE expandAncestors(_, _)
expandAncestors(h, current) ==
    IF current = Nil THEN h
    ELSE expandAncestors([h EXCEPT ![current].Expanded = TRUE], h[current].Parent)

ensureNodeVisible(m, node) == Reflatten(m, expandAncestors(m.nodes, m.nodes[node].Parent))

MinOf(S) == CHOOSE x \in S : \A y \in S : x <= y
MaxOf(S) == CHOOSE x \in S : \A y \in S : x >= y

\* positions (0-based) of the error nodes among visibleNodes[lo..hi]; the
\* loops index visibleNodes[i] at every i they visit
ErrorPositions(m, lo, hi) ==
    {i \in lo..hi : isErrorNode(m.nodes, m.visibleNodes[i + 1])}

jumpToError(m, i) ==
    ensureNodeVisible([m EXCEPT !.cursor = i, !.focusArea = FocusTree], m.visibleNodes[i + 1])

\* the forward loop stops at len(visibleNodes); the wrap loop runs up to
\* the cursor, and past the end of the list when the cursor is beyond it
jumpToNextError(m) ==
    LET n == Len(m.visibleNodes)
        forward == ErrorPositions(m, m.cursor + 1, n - 1)
        inList == IF m.cursor < n THEN m.cursor ELSE n - 1
        wrapped == ErrorPositions(m, 0, inList)
    IN IF m.errorCount = 0 THEN m
       ELSE IF forward # {} THEN jumpToError(m, MinOf(forward))
       ELSE IF wrapped # {} THEN jumpToError(m, MinOf(wrapped))
       ELSE IF m.cursor >= n THEN Panic(m)
       ELSE m

\* the backward loop starts at cursor - 1 without a look at the length
jumpToPreviousError(m) ==
    LET n == Len(m.visibleNodes)
    IN IF m.errorCount = 0 THEN m
       ELSE IF m.cursor - 1 >= n THEN Panic(m)
       ELSE LET backward == ErrorPositions(m, 0, m.cursor - 1)
                wrapped == ErrorPositions(m, m.cursor, n - 1)
            IN IF backward # {} THEN jumpToError(m, MaxOf(backward))
               ELSE IF wrapped # {} THEN jumpToError(m, MaxOf(wrapped))
               ELSE m

\* ------------------------------------------------- key handling (part_006)
\* A handler returns the new Model and the command: "nil", "quit", "tick"
\* or "viewport" (what the focused bubbles viewport returns; never a tick).
Ret(m, cmd) == [m |-> m, cmd |-> cmd]

TabLeft(tab) == IF tab > 0 THEN tab - 1 ELSE TabTiming

\* a right key that stops at the last tab
TabRightMut(tab) == IF tab < TabTiming THEN tab + 1 ELSE tab

TabRight(tab) == IF tab < TabTiming THEN tab + 1 ELSE TabOverview

updateRunListView(m, key, order) ==
    IF key \in {"q", "ctrl+c"} THEN Ret(m, "quit")
    ELSE IF key \in {"up", "k"}
    THEN Ret(IF m.runCursor > 0 THEN [m EXCEPT !.runCursor = @ - 1] ELSE m, "nil")
    ELSE IF key \in {"down", "j"}
    THEN Ret(IF m.runCursor < Len(m.allRuns) - 1 THEN [m EXCEPT !.runCursor = @ + 1] ELSE m, "nil")
    ELSE IF key \in {"enter", "l", "right"}
    THEN Ret(IF m.runCursor < Len(m.allRuns)
             THEN [loadRun(m, m.runCursor, order) EXCEPT !.viewMode = TreeView]
             ELSE m, "nil")
    ELSE Ret(m, "nil")

\* query: the lower-cased search text. Status.Description is empty in
\* every span the model writes
matchesSearch(h, node, query) ==
    LET s == h[node].Span
        attrs == GetAllAttributes(s)
    IN \/ Contains(ToLower(s.Name), query)
       \/ Contains(ToLower(GetFriendlyName(s)), query)
       \/ \E k \in DOMAIN attrs :
             \/ Contains(ToLower(CharsOf(k)), query)
             \/ Contains(ToLower(Sprintv(attrs[k])), query)
       \/ Contains(ToLower(CharsOf(s.Code)), query)

jumpToSearchMatch(m) ==
    IF m.searchIndex < 0 \/ m.searchIndex >= Len(m.searchMatches) THEN m
    ELSE LET match == m.searchMatches[m.searchIndex + 1]
             at == IF match.stale THEN 0 ELSE IndexOf(m.visibleNodes, match.node, 1)
         IN IF at # 0 THEN [m EXCEPT !.cursor = at - 1, !.focusArea = FocusTree] ELSE m

executeSearch(m) ==
    LET query == ToLower(m.searchQuery)
        Matches(node) == matchesSearch(m.nodes, node, query)
        found == SelectSeq(m.visibleNodes, Matches)
        m1 == [m EXCEPT !.searchMatches = <<>>, !.searchIndex = -1]
    IN IF m.searchQuery = <<>> THEN m1
       ELSE IF Len(found) > 0
       THEN jumpToSearchMatch([m1 EXCEPT
                !.searchMatches = [i \in DOMAIN found |-> [node |-> found[i], stale |-> FALSE]],
                !.searchIndex = 0])
       ELSE m1

\* the keys whose String() is one character long
SingleCharKeys ==
    {"q", "h", "l", "k", "j", "d", "e", "E", "n", "N", "/", " ", "[", "]", "1", "2", "3", "4", "5"}

updateSearchInput(m, key) ==
    IF key = "esc" THEN Ret([m EXCEPT !.searchMode = FALSE, !.searchQuery = <<>>], "nil")
    ELSE IF key = "enter" THEN Ret(executeSearch([m EXCEPT !.searchMode = FALSE]), "nil")
    ELSE IF key = "backspace"
    THEN Ret(IF Len(m.searchQuery) > 0
             THEN [m EXCEPT !.searchQuery = SubSeq(@, 1, Len(@) - 1)] ELSE m, "nil")
    ELSE Ret(IF key \in SingleCharKeys THEN [m EXCEPT !.searchQuery = Append(@, key)] ELSE m, "nil")

updateTreeView(m, key, order) ==
    IF key \in {"q", "ctrl+c"} THEN Ret(m, "quit")
    ELSE IF key = "tab" THEN Ret([m EXCEPT !.focusArea = (@ + 1) % 3], "nil")
    ELSE IF key = "shift+tab" THEN Ret([m EXCEPT !.focusArea = (@ + 2) % 3], "nil")
    ELSE IF key = "left" THEN Ret([m EXCEPT !.selectedTab = TabLeft(@)], "nil")
    ELSE IF key = "right" THEN Ret([m EXCEPT !.selectedTab = TabRight(@)], "nil")
    ELSE IF key = "h" THEN Ret(handleTreeCollapse(m), "nil")
    ELSE IF key = "l" THEN Ret(handleTreeSelection(m), "nil")
    ELSE IF key = "1" THEN Ret([m EXCEPT !.selectedTab = TabOverview], "nil")
    ELSE IF key = "2" THEN Ret([m EXCEPT !.selectedTab = TabPrompt], "nil")
    ELSE IF key = "3" THEN Ret([m EXCEPT !.selectedTab = TabResponse], "nil")
    ELSE IF key = "4" THEN Ret([m EXCEPT !.selectedTab = TabAttributes], "nil")
    ELSE IF key = "5" THEN Ret([m EXCEPT !.selectedTab = TabTiming], "nil")
    ELSE IF key \in {"esc", "backspace"}
    THEN (IF m.searchMode
          THEN Ret([m EXCEPT !.searchMode = FALSE, !.searchQuery = <<>>,
                             !.searchMatches = <<>>, !.searchIndex = -1], "nil")
          ELSE IF Len(m.allRuns) > 0
          THEN Ret([m EXCEPT !.viewMode = RunListView], "nil")
          ELSE Ret(m, "quit"))
    ELSE IF key \in {"up", "k", "down", "j"} THEN Ret(handleTreeNavigation(m, key), "nil")
    ELSE IF key = "enter" THEN Ret(handleTreeSelection(m), "nil")
    ELSE IF key = " " THEN Ret(handleTreeToggle(m), "nil")
    ELSE IF key = "d"
    THEN Ret(IF m.cursor < Len(m.visibleNodes) THEN [m EXCEPT !.viewMode = DetailView] ELSE m, "nil")
    ELSE IF key = "/" THEN Ret([m EXCEPT !.searchMode = TRUE, !.searchQuery = <<>>], "nil")
    ELSE IF key = "n"
    THEN Ret(IF Len(m.searchMatches) > 0
             THEN jumpToSearchMatch([m EXCEPT !.searchIndex = (@ + 1) % Len(m.searchMatches)])
             ELSE m, "nil")
    ELSE IF key = "N"
    THEN Ret(IF Len(m.searchMatches) > 0
             THEN jumpToSearchMatch([m EXCEPT !.searchIndex =
                                        IF @ <= 0 THEN Len(m.searchMatches) - 1 ELSE @ - 1])
             ELSE m, "nil")
    ELSE IF key = "e" THEN Ret(jumpToNextError(m), "nil")
    ELSE IF key = "E" THEN Ret(jumpToPreviousError(m), "nil")
    ELSE IF key \in {"[", "]"} THEN Ret(handleRunSwitching(m, key, order), "nil")
    ELSE Ret(m, "nil")

\* a detail view whose esc / backspace goes back to the run list
updateDetailViewMut(m, key) ==
    IF key \in {"q", "ctrl+c"} THEN Ret(m, "quit")
    ELSE IF key \in {"esc", "backspace"}
    THEN Ret([m EXCEPT !.viewMode = IF Len(m.allRuns) > 0 THEN RunListView ELSE TreeView], "nil")
    ELSE Ret(m, "viewport")

\* the tab keys render the node under the cursor: m.visibleNodes[m.cursor]
\* with no look at the length of the list
updateDetailView(m, key) ==
    IF key \in {"q", "ctrl+c"} THEN Ret(m, "quit")
    ELSE IF key \in {"esc", "backspace"} THEN Ret([m EXCEPT !.viewMode = TreeView], "nil")
    ELSE IF key \in {"left", "right", "1", "2", "3", "4", "5"} /\ m.cursor >= Len(m.visibleNodes)
    THEN Ret(Panic(m), "nil")
    ELSE IF key = "left" THEN Ret([m EXCEPT !.selectedTab = TabLeft(@)], "nil")
    ELSE IF key = "right" THEN Ret([m EXCEPT !.selectedTab = TabRight(@)], "nil")
    ELSE IF key = "1" THEN Ret([m EXCEPT !.selectedTab = TabOverview], "nil")
    ELSE IF key = "2" THEN Ret([m EXCEPT !.selectedTab = TabPrompt], "nil")
    ELSE IF key = "3" THEN Ret([m EXCEPT !.selectedTab = TabResponse], "nil")
    ELSE IF key = "4" THEN Ret([m EXCEPT !.selectedTab = TabAttributes], "nil")
    ELSE IF key = "5" THEN Ret([m EXCEPT !.selectedTab = TabTiming], "nil")
    ELSE Ret(m, "viewport")

\* a routing that does not look at searchMode
UpdateKeyMsgMut(m, key, order) ==
    IF m.viewMode = RunListView THEN updateRunListView(m, key, order)
    ELSE IF m.viewMode = TreeView THEN updateTreeView(m, key, order)
    ELSE updateDetailView(m, key)

UpdateKeyMsg(m, key, order) ==
    IF m.viewMode = RunListView THEN updateRunListView(m, key, order)
    ELSE IF m.viewMode = TreeView
    THEN (IF m.searchMode THEN updateSearchInput(m, key) ELSE updateTreeView(m, key, order))
    ELSE updateDetailView(m, key)

\* a tick handler that re-arms the tick only when it found new spans
UpdateTickMsgMut(m, statSize, content, order) ==
    IF m.isLive /\ m.tracePath # ""
    THEN LET r == checkFileUpdates(m, statSize, content)
         IN IF Len(r.newSpans) > 0
            THEN Ret(addNewSpans(r.m, r.newSpans, order), "tick")
            ELSE Ret(r.m, "nil")
    ELSE Ret(m, "nil")

UpdateTickMsg(m, statSize, content, order) ==
    IF m.isLive /\ m.tracePath # ""
    THEN LET r == checkFileUpdates(m, statSize, content)
         IN Ret(IF Len(r.newSpans) > 0 THEN addNewSpans(r.m, r.newSpans, order) ELSE r.m, "tick")
    ELSE Ret(m, "nil")

UpdateWindowSizeMsg(m) == Ret([m EXCEPT !.ready = TRUE], "viewport")

\* number of tick messages a command puts in flight
CmdTicks(cmd) == IF cmd = "tick" THEN tickCmd ELSE 0

\* ------------------------------------------------------------ the program
\* m: the bubbletea Model; file: the lines of trace.jsonl written so far
\* (offsets count complete lines); pendingTicks: tick messages scheduled and
\* not yet handled; pc: "new" before the TUI starts, "running", "quit",
\* "crashed" after a panic;
\* ingested: history of the spans handed to the loaded run (at load and by
\* every live-tail ingestion).
\* audit: the TraceObject handed to the diagram generator, the links of
\* the diagram it returned, and the span names Collect classified with the
\* event type it gave each.
\* run: a run directory as the trace commands find it (manifest.json, the
\* lines of its trace.jsonl) and what readManifest returned for it.
VARIABLES m, file, pendingTicks, pc, ingested, audit, run

vars == <<m, file, pendingTicks, pc, ingested, audit, run>>

AllIds == 1..NumIds

TracePath == "trace.jsonl"

\* what the span with a given SpanID carries in the viewer traces: a step
\* that ended well, a failed LLM call with streamed tokens, and a span whose
\* StartTime is unparseable, with an unset status and a token total
PayloadOf(id) ==
    CASE id % 3 = 1 -> [Name |-> NameStep, StartTime |-> 2, EndTime |-> 3, Code |-> "Ok",
                        Attributes |-> <<>>]
      [] id % 3 = 2 -> [Name |-> NameLLM, StartTime |-> 1, EndTime |-> 3, Code |-> "Error",
                        Attributes |-> <<[Key |-> KeyStreamTokens, Value |-> NumberValue(5)]>>]
      [] OTHER -> [Name |-> NameStep, StartTime |-> 0, EndTime |-> 3, Code |-> StatusUnset,
                   Attributes |-> <<[Key |-> KeyTotalTokens, Value |-> NumberValue(7)]>>]

ViewerSpan(id, parent) ==
    LET v == PayloadOf(id)
    IN Span(id, parent, v.Name, v.StartTime, v.EndTime, v.Code, v.Attributes)

\* spans the instrumented runtime writes: the parent, if any, has a smaller id
ViewerSpans == {ViewerSpan(id, parent) : id \in AllIds, parent \in 0..NumIds}

FileIds(f) == {f[i].SpanID : i \in {j \in DOMAIN f : f[j] # BadLine}}

\* lines the writer may append next.  The instrumented runtime ("fresh")
\* writes a span with a fresh SpanID whose parent has a smaller id, or a line
\* that is not JSON; any other producer of the file ("reuse") may write a
\* span whose SpanID an earlier line carried, with any parent
NextLines(writer, f, max) ==
    IF Len(f) >= max THEN {}
    ELSE IF writer = "reuse" THEN ViewerSpans
    ELSE {s \in ViewerSpans : s.SpanID \notin FileIds(f) /\ s.ParentSpanID < s.SpanID} \cup {BadLine}

\* what the writer appends while a reader is between two system calls: any
\* number of lines
RECURSIVE Appended(_, _, _)
Appended(writer, f, max) ==
    {<<>>} \cup UNION {{<<l>> \o rest : rest \in Appended(writer, Append(f, l), max)} :
                          l \in NextLines(writer, f, max)}

SpanIds(spans) == {spans[i].SpanID : i \in DOMAIN spans}

\* the orders in which range may visit the nodeMap built from spans
Orders(spans) == Perms(SpanIds(spans))

\* what readManifest gives for the run directory dir with these trace
\* lines: manifest.json when it parses, whatever the trace holds ("empty":
\* the JSON {}, no run id, span_count 0; "stale": the manifest of the run,
\* with a span_count of 7), else the summary parseTraceFile derives, which
\* has the name of the directory for run id and counts the lines that are
\* JSON.  Run directories are named 1, 2, ... in the order of their names;
\* the run id 0 is the empty string.
ManifestStates == {"none", "empty", "stale"}

ManifestRead(state, dir, lines) ==
    [RunID |-> IF state = "empty" THEN 0 ELSE dir,
     SpanCount |-> IF state = "none" THEN Len(ParseSpans(lines))
                   ELSE IF state = "empty" THEN 0 ELSE 7]

\* a run of the explorer: launchTraceExplorer calls readManifest (which reads
\* trace.jsonl when manifest.json does not parse), then reads trace.jsonl
\* for the spans
RunData(dir, atManifest, atRead, state) ==
    [Manifest |-> ManifestRead(state, dir, atManifest), Spans |-> ParseSpans(atRead)]

\* the runs directory as the loop over its entries reads it: k run
\* directories, of which live holds the trace being written, to which extra
\* is appended between the two reads, and the others hold earlier snapshots
\* of it; states: the manifest.json of each directory
RunsRead(f, extra, k, live, states) ==
    [i \in 1..k |-> IF i = live THEN RunData(i, f, f \o extra, states[i])
                    ELSE LET back == IF i < live THEN live - i ELSE i - 1
                             snap == SubSeq(f, 1, Len(f) - back)
                         IN RunData(i, snap, snap, states[i])]

\* sort.Slice by RunID, newest first: on so few runs the insertion sort, in
\* which a run moves before the runs of a smaller RunID
RECURSIVE SinkRun(_, _)
SinkRun(runs, j) ==
    IF j > 1 /\ runs[j].Manifest.RunID > runs[j - 1].Manifest.RunID
    THEN SinkRun([runs EXCEPT ![j] = runs[j - 1], ![j - 1] = runs[j]], j - 1)
    ELSE runs

RECURSIVE SortRunsFrom(_, _)
SortRunsFrom(runs, i) ==
    IF i > Len(runs) THEN runs ELSE SortRunsFrom(SinkRun(runs, i), i + 1)

RunsOf(f, extra, k, live, states) == SortRunsFrom(RunsRead(f, extra, k, live, states), 2)

\* keys of the tree explorer: quit, back, cursor, collapse / expand, details,
\* error jumps, run switching
NavKeys == {"q", "esc", "up", "down", "h", "l", "enter", " ", "d", "e", "E", "[", "]"}

\* keys of the panels: focus cycling next to the error jumps and collapse
PanelKeys == {"q", "tab", "shift+tab", "h", "l", "down", "d", "esc", "e", "E"}

Init ==
    /\ m = ZeroModel
    /\ file = <<>>
    /\ pendingTicks = 0
    /\ pc = "new"
    /\ ingested = <<>>
    /\ audit = [events |-> <<>>, links |-> <<>>, types |-> <<>>,
                 summary |-> [TotalEvents |-> 0, TotalDurationMs |-> 0]]
    /\ run = [manifest |-> [state |-> "missing", content |-> [Status |-> "", SpanCount |-> 0, LLMCalls |-> 0], lines |-> <<>>],
              trace |-> [state |-> "missing", content |-> [Status |-> "", SpanCount |-> 0, LLMCalls |-> 0], lines |-> <<>>],
              result |-> [done |-> FALSE, manifest |-> [Status |-> "", SpanCount |-> 0, LLMCalls |-> 0],
                          err |-> FALSE, read |-> {},
                          sawManifest |-> [state |-> "missing", content |-> [Status |-> "", SpanCount |-> 0, LLMCalls |-> 0], lines |-> <<>>],
                          sawTrace |-> [state |-> "missing", content |-> [Status |-> "", SpanCount |-> 0, LLMCalls |-> 0], lines |-> <<>>]]]

\* the instrumented runtime appends one line to trace.jsonl
Writer(max) ==
    /\ pc # "quit"
    /\ \E l \in NextLines("fresh", file, max) : file' = Append(file, l)
    /\ UNCHANGED <<m, pendingTicks, pc, ingested, audit, run>>

\* showTrace: os.ReadFile and ParseSpans, readManifest (which reads the file
\* again when manifest.json does not parse), NewTraceViewerWithPath on the
\* path of the file (os.Stat), Program.Run -> Init; the writer may append
\* between the first and the second read, and between that and os.Stat
StartViewer(writer, max) ==
    /\ pc = "new"
    /\ \E state \in ManifestStates, order \in Orders(ParseSpans(file)) :
       \E first \in Appended(writer, file, max) :
       \E second \in Appended(writer, file \o first, max) :
          LET spans == ParseSpans(file)
              m1 == NewTraceViewerWithPath(ManifestRead(state, 1, file \o first), spans, TracePath,
                                           Len(file \o first \o second), order)
          IN /\ m' = m1
             /\ file' = file \o first \o second
             /\ pendingTicks' = ModelInit(m1)
             /\ ingested' = spans
    /\ pc' = "running"
    /\ UNCHANGED <<audit, run>>

\* launchTraceExplorer: NewTraceExplorer over the runs that could be read
\* (at least one, or no program is started; at most maxRuns), sorted by
\* RunID, Program.Run -> Init
StartExplorer(max, maxRuns) ==
    /\ pc = "new"
    /\ \E k \in 1..maxRuns, extra \in Appended("fresh", file, max) :
       \E live \in 1..k, states \in [1..k -> ManifestStates] :
          LET runs == RunsOf(file, extra, k, live, states)
          IN \E order \in Orders(runs[1].Spans) :
             LET m1 == NewTraceExplorer(runs, order)
             IN /\ k <= Len(file) + 1
                /\ m' = m1
                /\ file' = file \o extra
                /\ pendingTicks' = ModelInit(m1)
                /\ ingested' = m1.allRuns[1].Spans
    /\ pc' = "running"
    /\ UNCHANGED <<audit, run>>

\* the run a key makes loadRun load (0-based), or -1
RunLoadedBy(mm, key) ==
    IF mm.viewMode = RunListView /\ key \in {"enter", "l", "right"} /\ mm.runCursor < Len(mm.allRuns)
    THEN mm.runCursor
    ELSE IF mm.viewMode = TreeView /\ ~mm.searchMode /\ key = "[" /\ Len(mm.allRuns) > 0 /\ mm.selectedRun > 0
    THEN mm.selectedRun - 1
    ELSE IF mm.viewMode = TreeView /\ ~mm.searchMode /\ key = "]" /\ Len(mm.allRuns) > 0
            /\ mm.selectedRun < Len(mm.allRuns) - 1
    THEN mm.selectedRun + 1
    ELSE -1

KeyOrders(mm, key) ==
    IF RunLoadedBy(mm, key) >= 0 THEN Orders(mm.allRuns[RunLoadedBy(mm, key) + 1].Spans) ELSE {<<>>}

\* tea.Quit ends the process: the model and the pending messages are gone;
\* so does a panic in the handler (pc "crashed")
KeyMsg(key) ==
    /\ pc = "running"
    /\ \E order \in KeyOrders(m, key) :
          LET r == UpdateKeyMsg(m, key, order)
          IN IF r.m.panicked \/ r.cmd = "quit"
             THEN /\ m' = ZeroModel
                  /\ pendingTicks' = 0
                  /\ pc' = IF r.m.panicked THEN "crashed" ELSE "quit"
                  /\ ingested' = <<>>
             ELSE /\ m' = r.m
                  /\ pendingTicks' = pendingTicks + CmdTicks(r.cmd)
                  /\ pc' = pc
                  /\ ingested' = IF Len(r.m.allRuns) > 0
                                 THEN r.m.allRuns[r.m.selectedRun + 1].Spans
                                 ELSE ingested
    /\ UNCHANGED <<file, audit, run>>

\* a scheduled tick fires; the writer may append between Stat and the scan
TickMsg(writer, max) ==
    /\ pc = "running"
    /\ pendingTicks > 0
    /\ \E extra \in Appended(writer, file, max) :
          LET statSize == Len(file)
              atScan == file \o extra
              content == SubSeq(atScan, m.lastOffset + 1, Len(atScan))
              polled == m.isLive /\ m.tracePath # "" /\ statSize > m.lastOffset
          IN \E order \in (IF polled THEN Orders(collectAllSpans(m) \o ParseSpans(content)) ELSE {<<>>}) :
             LET r == UpdateTickMsg(m, statSize, content, order)
             IN
             /\ (extra # <<>> => polled)
             /\ m' = r.m
             /\ file' = atScan
             /\ pendingTicks' = pendingTicks - 1 + CmdTicks(r.cmd)
             /\ ingested' = IF polled THEN ingested \o ParseSpans(content) ELSE ingested
    /\ UNCHANGED <<pc, audit, run>>

WindowSizeMsg ==
    /\ pc = "running"
    /\ LET r == UpdateWindowSizeMsg(m)
       IN /\ m' = r.m
          /\ pendingTicks' = pendingTicks + CmdTicks(r.cmd)
    /\ UNCHANGED <<file, pc, ingested, audit, run>>

Next ==
    \/ Writer(MaxLines)
    \/ StartViewer("fresh", MaxLines)
    \/ StartExplorer(MaxLines, MaxNavRuns)
    \/ \E key \in NavKeys : KeyMsg(key)
    \/ TickMsg("fresh", MaxLines)

Spec == Init /\ [][Next]_vars

\* the same program with the panel keys and window resizes, on shorter traces
NextPanels ==
    \/ Writer(MaxPanelLines)
    \/ StartViewer("fresh", MaxPanelLines)
    \/ StartExplorer(MaxPanelLines, MaxRuns)
    \/ \E key \in PanelKeys : KeyMsg(key)
    \/ TickMsg("fresh", MaxPanelLines)
    \/ WindowSizeMsg

SpecPanels == Init /\ [][NextPanels]_vars

\* the same program with the keys that cycle the focus and the detail tabs,
\* next to moving the cursor and opening and leaving the detail view
CycleKeys == {"tab", "shift+tab", "left", "right", "3", "down", "d", "esc"}

NextCycle ==
    \/ Writer(MaxPanelLines)
    \/ StartViewer("fresh", MaxPanelLines)
    \/ \E key \in CycleKeys : KeyMsg(key)
    \/ TickMsg("fresh", MaxPanelLines)

SpecCycle == Init /\ [][NextCycle]_vars

\* the same program with the search keys: '/', typing, confirming, stepping
\* through the matches, next to moving, collapsing and focus cycling.  The
\* text typed into the search input is capped at MaxQuery characters.
SearchKeys == {"/", "l", "5", "enter", "esc", "backspace", "n", "N", "h", "k", "tab", "q"}

SearchKeyMsg(key) ==
    /\ (m.searchMode /\ key \in SingleCharKeys => Len(m.searchQuery) < MaxQuery)
    /\ KeyMsg(key)

NextSearch ==
    \/ Writer(MaxPanelLines)
    \/ StartViewer("fresh", MaxPanelLines)
    \/ \E key \in SearchKeys : SearchKeyMsg(key)
    \/ TickMsg("fresh", MaxPanelLines)

SpecSearch == Init /\ [][NextSearch]_vars

TypeOK ==
    /\ pc \in {"new", "running", "quit", "crashed", "rendered", "collected"}
    /\ pendingTicks \in 0..2
    /\ Len(file) <= MaxLines
    /\ m.cursor \in 0..(MaxLines + 1)

\* ------------------------------------------ tree construction on any input
\* Span lists of any shape: repeated SpanIDs, parents that are empty, the zero
\* sentinel, unknown, the span itself or part of a cycle, start times that
\* parse or not.  SpanIDs are opaque, so the k-th distinct SpanID of a list
\* is k.
RootLikeIDs == {EmptyID, ZeroSpanID, UnknownID}

BuildSpan(id, parent, start) == Span(id, parent, NameStep, start, MaxTime + 1, "Ok", <<>>)

BuildSpans == {BuildSpan(id, parent, start) :
                  id \in AllIds, parent \in RootLikeIDs \cup AllIds, start \in 0..MaxTime}

BuildWriter ==
    /\ pc = "new"
    /\ Len(file) < MaxBuildSpans
    /\ \E s \in BuildSpans :
          /\ s.SpanID <= Cardinality(FileIds(file)) + 1
          /\ file' = Append(file, s)
    /\ UNCHANGED <<m, pendingTicks, pc, ingested, audit, run>>

\* a static viewer over a parsed span list: NewTraceViewer, Program.Run -> Init
StartStaticViewer ==
    /\ pc = "new"
    /\ \E order \in Orders(ParseSpans(file)) :
          LET spans == ParseSpans(file)
              m1 == NewTraceViewer([RunID |-> 1, SpanCount |-> Len(spans)], spans, order)
          IN /\ m' = m1
             /\ pendingTicks' = ModelInit(m1)
             /\ ingested' = spans
    /\ pc' = "running"
    /\ UNCHANGED <<file, audit, run>>

NextBuild == BuildWriter \/ StartStaticViewer

SpecBuild == Init /\ [][NextBuild]_vars

\* traces whose spans carry the token attributes: none, one of the two keys,
\* both, a string where the number is expected, a string next to a number
TokenAttrs ==
    {<<>>,
     <<[Key |-> KeyStreamTokens, Value |-> NumberValue(5)]>>,
     <<[Key |-> KeyTotalTokens, Value |-> NumberValue(7)]>>,
     <<[Key |-> KeyStreamTokens, Value |-> NumberValue(5)],
       [Key |-> KeyTotalTokens, Value |-> NumberValue(7)]>>,
     <<[Key |-> KeyStreamTokens, Value |-> StringValue(<<"1", "2">>)]>>,
     <<[Key |-> KeyStreamTokens, Value |-> StringValue(<<"x">>)],
       [Key |-> KeyTotalTokens, Value |-> NumberValue(7)]>>}

TokenSpan(id, parent, attrs) == Span(id, parent, NameStep, 1, 2, "Ok", attrs)

\* the runtime writes one more span; its parent, if any, was written before
TokenWriter ==
    /\ pc = "new"
    /\ Len(file) < MaxBuildSpans
    /\ \E parent \in 0..Len(file), attrs \in TokenAttrs :
          file' = Append(file, TokenSpan(Len(file) + 1, parent, attrs))
    /\ UNCHANGED <<m, pendingTicks, pc, ingested, audit, run>>

NextTokens == TokenWriter \/ StartStaticViewer

SpecTokens == Init /\ [][NextTokens]_vars

\* ------------------------------------------- traces for the metrics engine
\* spans of up to MaxMetricSpans steps and LLM calls that last 1..MaxTime
\* milliseconds; the parent, if any, was written before
MaxMetricSpans == 4

MetricSpan(id, parent, name, start) == Span(id, parent, name, start, MaxTime + 1, "Ok", <<>>)

MetricWriter ==
    /\ pc = "new"
    /\ Len(file) < MaxMetricSpans
    /\ \E parent \in 0..Len(file), name \in {NameStep, NameLLM}, start \in 1..MaxTime :
          file' = Append(file, MetricSpan(Len(file) + 1, parent, name, start))
    /\ UNCHANGED <<m, pendingTicks, pc, ingested, audit, run>>

NextMetrics == MetricWriter \/ StartStaticViewer

SpecMetrics == Init /\ [][NextMetrics]_vars

\* spans whose Attributes name a key more than once, with different values
AttrPool ==
    {[Key |-> k, Value |-> v] :
        k \in {KeyStreamTokens, KeyTotalTokens},
        v \in {NumberValue(5), NumberValue(7), StringValue(<<"x">>)}}

\* the trace file gets its one span, with up to MaxAttrs attributes
AttrWriter ==
    /\ pc = "new"
    /\ file = <<>>
    /\ \E attrs \in SeqsUpTo(AttrPool, MaxAttrs) :
          file' = <<Span(1, EmptyID, NameStep, 1, 2, "Ok", attrs)>>
    /\ UNCHANGED <<m, pendingTicks, pc, ingested, audit, run>>

NextAttrs == AttrWriter

SpecAttrs == Init /\ [][NextAttrs]_vars

\* The live viewer on a trace whose records reach the file in two writes:
\* the file is a sequence of pieces [rec, part], part 1 the beginning of the
\* record of span rec and part 2 its end with the newline; sizes and offsets
\* count pieces.  The scanner returns what lies between two newlines, and
\* what follows the last one, as lines: a record both pieces of which are in
\* the range read is the line of its span, any other piece is a line that
\* is not JSON.
RECURSIVE ScanLines(_)
ScanLines(pieces) ==
    IF pieces = <<>> THEN <<>>
    ELSE IF Len(pieces) >= 2 /\ pieces[1].part = 1 /\ pieces[2].part = 2
            /\ pieces[1].rec = pieces[2].rec
    THEN <<ViewerSpan(pieces[1].rec, EmptyID)>> \o ScanLines(SubSeq(pieces, 3, Len(pieces)))
    ELSE <<BadLine>> \o ScanLines(Tail(pieces))

\* what the writer may write next: the end of the record it began, or the
\* beginning of the next record
NextPieces(f) ==
    IF f # <<>> /\ f[Len(f)].part = 1 THEN {[rec |-> f[Len(f)].rec, part |-> 2]}
    ELSE IF Len(f) < 2 * MaxTailRecords THEN {[rec |-> Len(f) \div 2 + 1, part |-> 1]}
    ELSE {}

\* what the writer writes while a reader is between two system calls: any
\* number of pieces
RECURSIVE AppendedPieces(_)
AppendedPieces(f) ==
    {<<>>} \cup UNION {{<<l>> \o rest : rest \in AppendedPieces(Append(f, l))} : l \in NextPieces(f)}

PieceWriter ==
    /\ pc # "quit"
    /\ \E l \in NextPieces(file) : file' = Append(file, l)
    /\ UNCHANGED <<m, pendingTicks, pc, ingested, audit, run>>

\* showTrace on that file: os.ReadFile, then readManifest (which reads the
\* file again when manifest.json does not parse), then os.Stat; the writer
\* may write a piece in between
StartTailViewer ==
    /\ pc = "new"
    /\ \E state \in ManifestStates, order \in Orders(ParseSpans(ScanLines(file))) :
       \E first \in AppendedPieces(file) :
       \E second \in AppendedPieces(file \o first) :
          LET spans == ParseSpans(ScanLines(file))
              m1 == NewTraceViewerWithPath(ManifestRead(state, 1, ScanLines(file \o first)), spans, TracePath,
                                           Len(file \o first \o second), order)
          IN /\ m' = m1
             /\ file' = file \o first \o second
             /\ pendingTicks' = ModelInit(m1)
             /\ ingested' = spans
    /\ pc' = "running"
    /\ UNCHANGED <<audit, run>>

\* a tick: the poll of checkFileUpdates on that file
TailTick ==
    /\ pc = "running"
    /\ pendingTicks > 0
    /\ \E extra \in AppendedPieces(file) :
          LET statSize == Len(file)
              atScan == file \o extra
              content == ScanLines(SubSeq(atScan, m.lastOffset + 1, Len(atScan)))
              polled == statSize > m.lastOffset
          IN \E order \in (IF polled THEN Orders(collectAllSpans(m) \o ParseSpans(content)) ELSE {<<>>}) :
             LET r == UpdateTickMsg(m, statSize, content, order)
             IN
             /\ (extra # <<>> => polled)
             /\ m' = r.m
             /\ file' = atScan
             /\ pendingTicks' = pendingTicks - 1 + CmdTicks(r.cmd)
             /\ ingested' = IF polled THEN ingested \o ParseSpans(content) ELSE ingested
    /\ UNCHANGED <<pc, audit, run>>

NextTail == PieceWriter \/ StartTailViewer \/ TailTick

SpecTail == Init /\ [][NextTail]_vars

\* ------------------------------------------- traces that reuse a SpanID
\* trace.jsonl is an input of the viewer: a line may carry a SpanID that an
\* earlier line carried, with any parent.  addNewSpans (part_006 406-424)
\* replaces the node of that SpanID and rebuilds the forest.
MaxReuseLines == 3

ReuseWriter ==
    /\ pc # "quit"
    /\ \E l \in NextLines("reuse", file, MaxReuseLines) : file' = Append(file, l)
    /\ UNCHANGED <<m, pendingTicks, pc, ingested, audit, run>>

ReuseKeys == {"up", "down"}

NextReuse ==
    \/ ReuseWriter
    \/ StartViewer("reuse", MaxReuseLines)
    \/ TickMsg("reuse", MaxReuseLines)
    \/ \E key \in ReuseKeys : KeyMsg(key)

SpecReuse == Init /\ [][NextReuse]_vars

\* ------------------------------------------- diagram generator (part_004)
\* A TraceEvent is a record SpanID, ParentID, SpanName (characters),
\* Metadata (key -> value) and Timestamp (0: the zero time).  Events are
\* designated by their position in obj.Events, counted from 1.
KeyStepIndex == "agk.workflow.step_index"

TraceEvent(id, parent, name, metadata, timestamp) ==
    [SpanID |-> id, ParentID |-> parent, SpanName |-> name,
     Metadata |-> metadata, Timestamp |-> timestamp]

isWorkflowSequential(event) ==
    Contains(ToLower(event.SpanName), CharsOf("workflow.sequential"))

isWorkflowStep(event) ==
    \/ Contains(ToLower(event.SpanName), CharsOf("workflow.step"))
    \/ /\ KeyStepName \in DOMAIN event.Metadata
       /\ event.Metadata[KeyStepName].kind = "string"
       /\ event.Metadata[KeyStepName].str # <<>>

IsDigit(c) == c \in {"0", "1", "2", "3", "4", "5", "6", "7", "8", "9"}

DigitValue(c) == CHOOSE d \in 0..9 : DigitChar(d) = c

RECURSIVE DigitsValue(_)
DigitsValue(s) ==
    IF s = <<>> THEN 0
    ELSE 10 * DigitsValue(SubSeq(s, 1, Len(s) - 1)) + DigitValue(s[Len(s)])

\* strconv.Atoi: an optional sign, then one or more decimal digits
parseInt(value) ==
    LET signed == value # <<>> /\ value[1] \in {"+", "-"}
        digits == IF signed THEN Tail(value) ELSE value
    IN IF digits # <<>> /\ \A i \in DOMAIN digits : IsDigit(digits[i])
       THEN [val |-> IF signed /\ value[1] = "-" THEN 0 - DigitsValue(digits)
                     ELSE DigitsValue(digits),
             ok |-> TRUE]
       ELSE [val |-> 0, ok |-> FALSE]

\* a Timestamp is a number of milliseconds
getStepIndex(event) ==
    LET has == KeyStepIndex \in DOMAIN event.Metadata
        raw == event.Metadata[KeyStepIndex]
        fallback == [val |-> event.Timestamp, ok |-> FALSE]
    IN IF has /\ raw.kind = "number" THEN [val |-> raw.num, ok |-> TRUE]
       ELSE IF has /\ raw.kind = "string" /\ parseInt(raw.str).ok
       THEN [val |-> parseInt(raw.str).val, ok |-> TRUE]
       ELSE fallback

\* the less function of the sort of stepChildren
LessStep(events, a, b) ==
    LET stepI == getStepIndex(events[a])
        stepJ == getStepIndex(events[b])
    IN IF stepI.ok /\ stepJ.ok THEN stepI.val < stepJ.val
       ELSE IF stepI.ok # stepJ.ok THEN stepI.ok
       ELSE events[a].Timestamp < events[b].Timestamp

\* the less function of the sort of descendants
LessTime(events, a, b) == events[a].Timestamp < events[b].Timestamp

\* the less function handed to sort.Slice: of stepChildren or of descendants
SliceLess(events, a, b, bySteps) ==
    IF bySteps THEN LessStep(events, a, b) ELSE LessTime(events, a, b)

\* sort.Slice runs pdqsort_func of Go's sort package, which sorts a range of
\* at most 12 elements by insertion (stable), and partitions a longer one
\* around a pivot before it sorts the parts: elements that compare equal may
\* leave it in another order than they came in
RECURSIVE SinkSlice(_, _, _, _)
SinkSlice(events, s, j, bySteps) ==
    IF j > 1 /\ SliceLess(events, s[j], s[j - 1], bySteps)
    THEN SinkSlice(events, [s EXCEPT ![j] = s[j - 1], ![j - 1] = s[j]], j - 1, bySteps)
    ELSE s

RECURSIVE SortSliceFrom(_, _, _, _)
SortSliceFrom(events, s, i, bySteps) ==
    IF i > Len(s) THEN s
    ELSE SortSliceFrom(events, SinkSlice(events, s, i, bySteps), i + 1, bySteps)

\* the less function of a sort.Slice call as a table over the elements of s
LessTable(events, s, bySteps) ==
    [x \in Range(s) |-> [y \in Range(s) |-> SliceLess(events, x, y, bySteps)]]

\* insertionSort on the range s[a..b]
RECURSIVE SinkRange(_, _, _, _)
SinkRange(less, s, a, j) ==
    IF j > a /\ less[s[j]][s[j - 1]]
    THEN SinkRange(less, [s EXCEPT ![j] = s[j - 1], ![j - 1] = s[j]], a, j - 1)
    ELSE s

RECURSIVE InsertionSortRange(_, _, _, _, _)
InsertionSortRange(less, s, a, i, b) ==
    IF i > b THEN s
    ELSE InsertionSortRange(less, SinkRange(less, s, a, i), a, i + 1, b)

SwapAt(s, i, j) == [s EXCEPT ![i] = s[j], ![j] = s[i]]

\* order2: the two positions with the one of the smaller element first, and
\* whether they were exchanged
Order2(less, s, a, b) ==
    IF less[s[b]][s[a]] THEN [lo |-> b, hi |-> a, swaps |-> 1]
    ELSE [lo |-> a, hi |-> b, swaps |-> 0]

\* choosePivot on a range of 8 to 49 elements: the median of the elements a
\* quarter, a half and three quarters into the range, and the number of
\* exchanges it took to find it (none: the range looks sorted)
ChoosePivot(less, s) ==
    LET q == Len(s) \div 4
        o1 == Order2(less, s, q + 1, 2 * q + 1)
        o2 == Order2(less, s, o1.hi, 3 * q + 1)
        o3 == Order2(less, s, o1.lo, o2.lo)
    IN [pivot |-> o3.hi, swaps |-> o1.swaps + o2.swaps + o3.swaps]

\* partialInsertionSort on fewer than 50 elements: whether the range is
\* sorted already
SliceSorted(less, s) == \A i \in 2..Len(s) : ~less[s[i]][s[i - 1]]

\* partition, the pivot being at s[1]: i moves up over the elements less than
\* the pivot, j down over the others
RECURSIVE ScanUp(_, _, _, _)
ScanUp(less, s, i, j) ==
    IF i <= j /\ less[s[i]][s[1]] THEN ScanUp(less, s, i + 1, j) ELSE i

RECURSIVE ScanDown(_, _, _, _)
ScanDown(less, s, i, j) ==
    IF i <= j /\ ~less[s[j]][s[1]] THEN ScanDown(less, s, i, j - 1) ELSE j

RECURSIVE PartitionFrom(_, _, _, _)
PartitionFrom(less, s, i, j) ==
    LET up == ScanUp(less, s, i, j)
        down == ScanDown(less, s, up, j)
    IN IF up > down THEN [s |-> SwapAt(s, down, 1), mid |-> down]
       ELSE PartitionFrom(less, SwapAt(s, up, down), up + 1, down - 1)

Partition(less, s, pivot) == PartitionFrom(less, SwapAt(s, 1, pivot), 2, Len(s))

\* pdqsort_func on 13 elements: nothing to do when the pivot was found
\* without exchange and the range is sorted; else one partition, and both
\* parts, of at most 12 elements, are sorted by insertion
PdqSort13(less, s) ==
    LET c == ChoosePivot(less, s)
        p == Partition(less, s, c.pivot)
        left == InsertionSortRange(less, p.s, 1, 2, p.mid - 1)
    IN IF c.swaps = 0 /\ SliceSorted(less, s) THEN s
       ELSE InsertionSortRange(less, left, p.mid + 1, p.mid + 2, Len(s))

\* sort.Slice(s, less), on at most 13 elements
SortSlice(events, s, bySteps) ==
    IF Len(s) <= 12 THEN SortSliceFrom(events, s, 2, bySteps)
    ELSE PdqSort13(LessTable(events, s, bySteps), s)

HasParentID(event) == event.ParentID # EmptyID /\ event.ParentID # ZeroSpanID

\* parentMap[id]: the positions of the events whose ParentID is id, ascending
ParentMapKeys(events) ==
    {events[i].ParentID : i \in {j \in DOMAIN events : HasParentID(events[j])}}

ParentMapAt(events, id) ==
    LET Is(i) == events[i].ParentID = id
    IN SelectSeq([i \in DOMAIN events |-> i], Is)

\* spanIDToIndex[id]: the last event with that SpanID
SpanIDToIndex(events, id) ==
    CHOOSE i \in DOMAIN events :
        /\ events[i].SpanID = id
        /\ \A j \in DOMAIN events : j > i => events[j].SpanID # id

EventIDs(events) == {events[i].SpanID : i \in DOMAIN events}

\* childrenBySpan[id]: the SpanIDs of the events whose ParentID is id
ChildrenBySpan(events, id) ==
    IF id \in ParentMapKeys(events)
    THEN [k \in DOMAIN ParentMapAt(events, id) |-> events[ParentMapAt(events, id)[k]].SpanID]
    ELSE <<>>

\* the ascending sequence of the numbers of S (sort.Ints)
RECURSIVE SortInts(_)
SortInts(S) ==
    IF S = {} THEN <<>>
    ELSE LET x == CHOOSE y \in S : \A z \in S : y <= z
         IN <<x>> \o SortInts(S \ {x})

ParentIndices(events) ==
    SortInts({SpanIDToIndex(events, id) : id \in ParentMapKeys(events) \cap EventIDs(events)})

RECURSIVE collectFrom(_, _, _, _)
collectFrom(events, queue, visited, result) ==
    IF queue = <<>> THEN result
    ELSE IF Head(queue) \in visited THEN collectFrom(events, Tail(queue), visited, result)
    ELSE LET children == ChildrenBySpan(events, Head(queue))
             Counts(childSpan) ==
                 /\ childSpan \in EventIDs(events)
                 /\ ~isWorkflowStep(events[SpanIDToIndex(events, childSpan)])
                 /\ ~isWorkflowSequential(events[SpanIDToIndex(events, childSpan)])
             kept == SelectSeq(children, Counts)
         IN collectFrom(events, Tail(queue) \o children, visited \cup {Head(queue)},
                        result \o [k \in DOMAIN kept |-> SpanIDToIndex(events, kept[k])])

\* the root counted among its own descendants
collectDescendantIndicesMut(events, rootSpanID) ==
    collectFrom(events, <<rootSpanID>>, {}, <<SpanIDToIndex(events, rootSpanID)>>)

collectDescendantIndices(events, rootSpanID) == collectFrom(events, <<rootSpanID>>, {}, <<>>)

\* the links added so far, in the order diagram.AddLink received them
addLink(links, fromIdx, toIdx) ==
    IF <<fromIdx, toIdx>> \in Range(links) THEN links ELSE Append(links, <<fromIdx, toIdx>>)

RECURSIVE LinkConsecutive(_, _, _)
LinkConsecutive(links, s, i) ==
    IF i > Len(s) - 1 THEN links
    ELSE LinkConsecutive(addLink(links, s[i], s[i + 1]), s, i + 1)

RECURSIVE LinkEach(_, _, _, _)
LinkEach(links, fromIdx, s, i) ==
    IF i > Len(s) THEN links
    ELSE LinkEach(addLink(links, fromIdx, s[i]), fromIdx, s, i + 1)

\* a fan-out from the container to each of its steps
LinkStepsMut(links, parentIdx, stepChildren) == LinkEach(links, parentIdx, stepChildren, 1)

\* parent -> first step -> next step ...
LinkSteps(links, parentIdx, stepChildren) ==
    IF Len(stepChildren) > 0
    THEN LinkConsecutive(addLink(links, parentIdx, stepChildren[1]), stepChildren, 1)
    ELSE links

\* step -> first descendant -> next descendant ...
LinkDescendants(links, stepIdx, descendants) ==
    IF Len(descendants) = 0 THEN links
    ELSE LinkConsecutive(addLink(links, stepIdx, descendants[1]), descendants, 1)

StepChildren(events, parentIdx) ==
    LET IsStep(i) == isWorkflowStep(events[i])
    IN SelectSeq(ParentMapAt(events, events[parentIdx].SpanID), IsStep)

OtherChildren(events, parentIdx) ==
    LET IsOther(i) == ~isWorkflowStep(events[i])
    IN SelectSeq(ParentMapAt(events, events[parentIdx].SpanID), IsOther)

RECURSIVE LinkStepDescendants(_, _, _, _)
LinkStepDescendants(events, links, stepChildren, i) ==
    IF i > Len(stepChildren) THEN links
    ELSE LinkStepDescendants(events,
             LinkDescendants(links, stepChildren[i],
                 SortSlice(events,
                           collectDescendantIndices(events, events[stepChildren[i]].SpanID),
                           FALSE)),
             stepChildren, i + 1)

\* the body of the loop over sequentialParents
SequentialLinks(events, links, parentIdx) ==
    LET stepChildren == SortSlice(events, StepChildren(events, parentIdx), TRUE)
    IN LinkStepDescendants(events, LinkSteps(links, parentIdx, stepChildren), stepChildren, 1)

RECURSIVE SequentialLoop(_, _, _, _)
SequentialLoop(events, links, parents, i) ==
    IF i > Len(parents) THEN links
    ELSE SequentialLoop(events, SequentialLinks(events, links, parents[i]), parents, i + 1)

\* the body of the loop over parentIndices
HierarchyLinks(events, links, parentIdx) ==
    IF isWorkflowSequential(events[parentIdx])
    THEN LinkEach(LinkSteps(links, parentIdx,
                            SortSlice(events, StepChildren(events, parentIdx), TRUE)),
                  parentIdx, OtherChildren(events, parentIdx), 1)
    ELSE LinkEach(links, parentIdx, ParentMapAt(events, events[parentIdx].SpanID), 1)

RECURSIVE HierarchyLoop(_, _, _, _)
HierarchyLoop(events, links, parents, i) ==
    IF i > Len(parents) THEN links
    ELSE HierarchyLoop(events, HierarchyLinks(events, links, parents[i]), parents, i + 1)

SequentialParents(events) ==
    LET IsSeq(i) == isWorkflowSequential(events[i])
    IN SelectSeq(ParentIndices(events), IsSeq)

\* the links of the diagram returned for obj.Events = events
GenerateMermaidWithHierarchy(events) ==
    IF Len(SequentialParents(events)) > 0
    THEN SequentialLoop(events, <<>>, SequentialParents(events), 1)
    ELSE HierarchyLoop(events, <<>>, ParentIndices(events), 1)

GenerateMermaid(events) == GenerateMermaidWithHierarchy(events)

\* The TraceObjects handed to the generator.  Collect returns the events
\* sorted by Timestamp, so the Timestamp of an event follows from its
\* position; the SpanID of an event is its position; the name and the
\* metadata follow from a kind and the position.
EventKinds == {"sequential", "step", "indexed", "other"}

EventTimestamp(pos) == pos \div 2

EventName(pos, kind) ==
    IF kind = "sequential" THEN CharsOf("agk.workflow.sequential")
    ELSE IF kind = "indexed" THEN CharsOf("workflow.step")
    ELSE IF kind = "step" /\ pos % 2 = 1 THEN CharsOf("Workflow.Step")
    ELSE CharsOf("agk.agent.run")

StepIndexAt(pos) ==
    CASE pos = 1 -> NumberValue(2)
      [] pos = 2 -> StringValue(<<"1">>)
      [] pos = 3 -> NumberValue(1)
      [] pos = 4 -> StringValue(<<"x">>)
      [] OTHER -> NumberValue(0)

EventMetadata(pos, kind) ==
    IF kind = "indexed" THEN (KeyStepIndex :> StepIndexAt(pos))
    ELSE IF kind = "step" /\ pos % 2 = 0 THEN (KeyStepName :> StringValue(NameStep))
    ELSE <<>>

NoParentAt(pos) == IF pos % 2 = 1 THEN EmptyID ELSE ZeroSpanID

EventParents(pos) == {NoParentAt(pos), MaxEvents + 1} \cup (1..MaxEvents)

EventAt(pos, kind, parent) ==
    TraceEvent(pos, parent, EventName(pos, kind), EventMetadata(pos, kind), EventTimestamp(pos))

\* Collect has one more event to return
EventWriter ==
    /\ pc = "new"
    /\ Len(audit.events) < MaxEvents
    /\ \E kind \in EventKinds, parent \in EventParents(Len(audit.events) + 1) :
          audit' = [audit EXCEPT !.events = Append(@, EventAt(Len(@) + 1, kind, parent))]
    /\ UNCHANGED <<m, file, pendingTicks, pc, ingested, run>>

\* generateMermaid: Collect, then GenerateMermaidWithHierarchy
Render ==
    /\ pc = "new"
    /\ audit' = [audit EXCEPT !.links = GenerateMermaid(audit.events)]
    /\ pc' = "rendered"
    /\ UNCHANGED <<m, file, pendingTicks, ingested, run>>

NextDiagram == EventWriter \/ Render

SpecDiagram == Init /\ [][NextDiagram]_vars

\* Traces of a sequential workflow one step of which runs a sequential
\* workflow itself: the container (event 1), its step (2), the container
\* under that step (3), its step (4), and then up to MaxChainLeaves events
\* that are neither, each under the outer or under the inner step, of which
\* at most MaxInnerLeaves under the inner one.  Collect returns the events
\* sorted by Timestamp: no event has a smaller Timestamp than the one
\* before it.  The outer step never has more descendants than the 13 up to
\* which SortSlice follows sort.Slice.
MaxChainLeaves == 13
MaxInnerLeaves == 2
MaxChainTime == 2

\* the position of the step of the container at that level of nesting
ChainStep(level) == 2 * level

OuterStep == ChainStep(1)
InnerStep == ChainStep(2)

ChainEventAt(pos, parent, timestamp) ==
    IF pos = 1 THEN TraceEvent(1, EmptyID, CharsOf("agk.workflow.sequential"), <<>>, timestamp)
    ELSE IF pos = OuterStep THEN TraceEvent(pos, 1, CharsOf("workflow.step"), <<>>, timestamp)
    ELSE IF pos = 3 THEN TraceEvent(3, OuterStep, CharsOf("agk.workflow.sequential"), <<>>, timestamp)
    ELSE IF pos = InnerStep THEN TraceEvent(pos, 3, CharsOf("workflow.step"), <<>>, timestamp)
    ELSE TraceEvent(pos, parent, CharsOf("agk.agent.run"), <<>>, timestamp)

InnerLeaves(events) == {i \in DOMAIN events : i > InnerStep /\ events[i].ParentID = InnerStep}

\* Collect has one more event of such a trace to return
ChainWriter ==
    /\ pc = "new"
    /\ Len(audit.events) < InnerStep + MaxChainLeaves
    /\ Len(audit.events) < InnerStep + 13
    /\ \E parent \in {OuterStep, InnerStep}, timestamp \in 1..MaxChainTime :
          /\ Len(audit.events) > 0 => timestamp >= audit.events[Len(audit.events)].Timestamp
          /\ Len(audit.events) < InnerStep => parent = OuterStep /\ timestamp = 1
          /\ parent = InnerStep => Cardinality(InnerLeaves(audit.events)) < MaxInnerLeaves
          /\ audit' = [audit EXCEPT !.events =
                          Append(@, ChainEventAt(Len(@) + 1, parent, timestamp))]
    /\ UNCHANGED <<m, file, pendingTicks, pc, ingested, run>>

NextChains == ChainWriter \/ Render

SpecChains == Init /\ [][NextChains]_vars

\* ------------------------------------------------ Collect (collector.go)
\* c.spans is the variable file; a span's StartTime is 1..MaxTime, in
\* milliseconds after the first instant of the run, or 0 when it is missing
\* or no RFC3339 text: spanToEvent then leaves Timestamp the zero time.Time.
\* The events of Collect are records SpanID, Timestamp.
MaxCollectSpans == 4

spanToEvent(span) == [SpanID |-> span.SpanID, Timestamp |-> span.StartTime]

\* a.Sub(b).Milliseconds(): the zero time is two thousand years before the
\* run, beyond the 292 years of a Duration, so Sub saturates (9223372036854
\* ms, held here as the greatest integer of the checker)
SubMilliseconds(a, b) ==
    IF a = b THEN 0
    ELSE IF b = 0 THEN 2147483647
    ELSE IF a = 0 THEN 0 - 2147483647
    ELSE a - b

\* the timing part of Collect's loop: obj.StartTime and obj.EndTime
RECURSIVE CollectTimes(_, _, _)
CollectTimes(events, i, t) ==
    IF i > Len(events) THEN t
    ELSE LET ts == events[i].Timestamp
             start == IF t.StartTime = 0 \/ ts < t.StartTime THEN ts ELSE t.StartTime
             end == IF ts > t.EndTime THEN ts ELSE t.EndTime
         IN CollectTimes(events, i + 1, [StartTime |-> start, EndTime |-> end])

\* sort.Slice with Timestamp.Before on a short slice: insertion sort
RECURSIVE SortEvents(_)
SortEvents(events) ==
    IF Len(events) <= 1 THEN events
    ELSE LET head == SortEvents(SubSeq(events, 1, Len(events) - 1))
             e == events[Len(events)]
             keep == {i \in DOMAIN head : head[i].Timestamp <= e.Timestamp}
             at == IF keep = {} THEN 1 ELSE (CHOOSE i \in keep : \A j \in keep : j <= i) + 1
         IN InsertAt(head, at, e)

Collect(spans) ==
    LET events == [i \in DOMAIN spans |-> spanToEvent(spans[i])]
        t == CollectTimes(events, 1, [StartTime |-> 0, EndTime |-> 0])
    IN [Events |-> SortEvents(events),
        Summary |-> [TotalEvents |-> Len(events),
                     TotalDurationMs |-> SubMilliseconds(t.EndTime, t.StartTime)]]

\* the run directory's trace gets one more span
CollectWriter ==
    /\ pc = "new"
    /\ Len(file) < MaxCollectSpans
    /\ \E start \in 0..MaxTime :
          file' = Append(file, Span(Len(file) + 1, EmptyID, NameStep, start, MaxTime + 1, "Ok", <<>>))
    /\ UNCHANGED <<m, pendingTicks, pc, ingested, audit, run>>

\* NewCollector(runPath).Collect()
CollectRun ==
    /\ pc = "new"
    /\ LET obj == Collect(ParseSpans(file))
       IN audit' = [audit EXCEPT !.events = obj.Events, !.summary = obj.Summary]
    /\ pc' = "collected"
    /\ UNCHANGED <<m, file, pendingTicks, ingested, run>>

NextCollect == CollectWriter \/ CollectRun

SpecCollect == Init /\ [][NextCollect]_vars

\* ------------------------------------------ span classifier (collector.go)
EventTypeThought == "thought"
EventTypeToolCall == "tool_call"
EventTypeLLMCall == "llm_call"
EventTypeDecision == "decision"

\* a classifier that looks for "llm" before "tool"
classifySpanMut(name) ==
    LET nameLower == ToLower(name)
    IN IF Contains(nameLower, <<"l", "l", "m">>) THEN EventTypeLLMCall
       ELSE IF Contains(nameLower, <<"t", "o", "o", "l">>) THEN EventTypeToolCall
       ELSE IF Contains(nameLower, <<"a", "g", "e", "n", "t">>) THEN EventTypeThought
       ELSE IF Contains(nameLower, <<"w", "o", "r", "k", "f", "l", "o", "w">>) THEN EventTypeDecision
       ELSE EventTypeThought

classifySpan(name) ==
    LET nameLower == ToLower(name)
    IN IF Contains(nameLower, <<"t", "o", "o", "l">>) THEN EventTypeToolCall
       ELSE IF Contains(nameLower, <<"l", "l", "m">>) THEN EventTypeLLMCall
       ELSE IF Contains(nameLower, <<"a", "g", "e", "n", "t">>) THEN EventTypeThought
       ELSE IF Contains(nameLower, <<"w", "o", "r", "k", "f", "l", "o", "w">>) THEN EventTypeDecision
       ELSE EventTypeThought

\* span names: up to MaxNameParts pieces, in mixed case, among them two
\* halves that spell "tool" only when joined
NameParts ==
    {<<"T", "o", "o", "l">>, <<"L", "L", "M">>, <<"A", "g", "E", "n", "t">>,
     <<"W", "o", "r", "k", "F", "l", "o", "w">>, <<"r", "u", "n">>,
     <<"t", "O">>, <<"o", "l">>}

RECURSIVE Joined(_)
Joined(parts) == IF parts = <<>> THEN <<>> ELSE Head(parts) \o Joined(Tail(parts))

SpanNames == {Joined(parts) : parts \in SeqsUpTo(NameParts, MaxNameParts)} \ {<<>>}

\* Collect turns one more span into an event: spanToEvent sets its Type
CollectSpan ==
    /\ pc = "new"
    /\ Len(audit.types) < MaxNamed
    /\ \E name \in SpanNames :
          audit' = [audit EXCEPT !.types = Append(@, [SpanName |-> name, Type |-> classifySpan(name)])]
    /\ UNCHANGED <<m, file, pendingTicks, pc, ingested, run>>

NextClassify == CollectSpan

SpecClassify == Init /\ [][NextClassify]_vars

\* --------------------------------------------- run summaries (part_001)
\* A TraceRun is a record Status, SpanCount, LLMCalls; the run id, the
\* command, the times (time.Now() when no span has one) and the token total
\* of the derived summary are left out: the lines of these traces carry no
\* completion-token attribute.  A file of the run directory is a record:
\* state "missing", "denied" (it cannot be read), "invalid" (manifest.json
\* that is not the JSON of a TraceRun) or "ok", with the TraceRun or the
\* lines it holds.
TraceRun(status, spanCount, llmCalls) ==
    [Status |-> status, SpanCount |-> spanCount, LLMCalls |-> llmCalls]

ManifestFile == "manifest.json"
TraceFile == "trace.jsonl"

NoFile(state) == [state |-> state, content |-> TraceRun("", 0, 0), lines |-> <<>>]

ManifestOf(content) == [state |-> "ok", content |-> content, lines |-> <<>>]

TraceOf(lines) == [state |-> "ok", content |-> TraceRun("", 0, 0), lines |-> lines]

\* RunStats.Update: one more JSON object of the log
RunStatsUpdate(stats, span) ==
    [SpanCount |-> stats.SpanCount + 1,
     LLMCalls |-> stats.LLMCalls + (IF Contains(span.Name, <<"l", "l", "m">>) THEN 1 ELSE 0)]

RECURSIVE ScanStats(_, _)
ScanStats(stats, lines) ==
    IF lines = <<>> THEN stats
    ELSE ScanStats(IF Head(lines) = BadLine THEN stats ELSE RunStatsUpdate(stats, Head(lines)),
                   Tail(lines))

parseTraceFile(dir) ==
    IF dir.trace.state # "ok"
    THEN [done |-> TRUE, manifest |-> TraceRun("", 0, 0), err |-> TRUE, read |-> {TraceFile}]
    ELSE LET stats == ScanStats([SpanCount |-> 0, LLMCalls |-> 0], dir.trace.lines)
         IN [done |-> TRUE, manifest |-> TraceRun("completed", stats.SpanCount, stats.LLMCalls),
             err |-> FALSE, read |-> {TraceFile}]

\* a first step for which a manifest.json that does not parse is an error
readManifestFileMut(dir) ==
    IF dir.manifest.state \in {"ok", "invalid"}
    THEN [done |-> TRUE, manifest |-> dir.manifest.content,
          err |-> dir.manifest.state = "invalid", read |-> {ManifestFile}]
    ELSE [done |-> FALSE, manifest |-> TraceRun("", 0, 0), err |-> FALSE, read |-> {ManifestFile}]

\* the first step of readManifest: os.ReadFile of manifest.json and
\* json.Unmarshal; done when both succeed, else the fallback is to come
readManifestFile(dir) ==
    IF dir.manifest.state = "ok"
    THEN [done |-> TRUE, manifest |-> dir.manifest.content, err |-> FALSE,
          read |-> {ManifestFile}]
    ELSE [done |-> FALSE, manifest |-> TraceRun("", 0, 0), err |-> FALSE, read |-> {ManifestFile}]

\* readManifest on a run directory that nothing writes meanwhile
readManifest(dir) ==
    IF readManifestFile(dir).done THEN readManifestFile(dir)
    ELSE [parseTraceFile(dir) EXCEPT !.read = @ \cup readManifestFile(dir).read]

\* manifests a finished run leaves; their counts are those of the run, not
\* of what the log holds now
ManifestPool == {TraceRun("completed", 7, 3), TraceRun("failed", 1, 0)}

SummaryNameParts ==
    {<<"l", "l", "m">>, <<"L", "L", "M">>, <<"T", "o", "o", "l">>, <<"r", "u", "n">>}

SummaryNames == {Joined(parts) : parts \in SeqsUpTo(SummaryNameParts, 2)} \ {<<>>}

SummaryLines ==
    {BadLine} \cup {Span(1, EmptyID, name, 1, 2, "Ok", <<>>) : name \in SummaryNames}

\* the run leaves a manifest.json, or something in its place
ManifestWriter ==
    /\ pc = "new"
    /\ ~run.result.done
    /\ run.manifest.state = "missing"
    /\ \E f \in {NoFile("denied"), NoFile("invalid")} \cup {ManifestOf(c) : c \in ManifestPool} :
          run' = [run EXCEPT !.manifest = f]
    /\ UNCHANGED <<m, file, pendingTicks, pc, ingested, audit>>

\* the run creates its trace.jsonl, or appends a line to it
TraceLogWriter ==
    /\ pc = "new"
    /\ ~run.result.done
    /\ IF run.trace.state = "missing"
       THEN \E f \in {NoFile("denied"), TraceOf(<<>>)} : run' = [run EXCEPT !.trace = f]
       ELSE /\ run.trace.state = "ok"
            /\ Len(run.trace.lines) < MaxSummaryLines
            /\ \E l \in SummaryLines : run' = [run EXCEPT !.trace.lines = Append(@, l)]
    /\ UNCHANGED <<m, file, pendingTicks, pc, ingested, audit>>

\* the result of a step of readManifest next to what the reads have seen
Looking(r, sawManifest, sawTrace) ==
    [done |-> r.done, manifest |-> r.manifest, err |-> r.err, read |-> r.read,
     sawManifest |-> sawManifest, sawTrace |-> sawTrace]

\* a trace command looks the run up: readManifest reads manifest.json
ReadManifest ==
    /\ pc = "new"
    /\ ~run.result.done
    /\ ManifestFile \notin run.result.read
    /\ run' = [run EXCEPT !.result = Looking(readManifestFile(run), run.manifest, @.sawTrace)]
    /\ UNCHANGED <<m, file, pendingTicks, pc, ingested, audit>>

\* manifest.json gave no manifest: readManifest returns what parseTraceFile
\* makes of trace.jsonl as it is by then
ParseTraceFile ==
    /\ pc = "new"
    /\ ~run.result.done
    /\ ManifestFile \in run.result.read
    /\ run' = [run EXCEPT !.result =
                   Looking([parseTraceFile(run) EXCEPT !.read = @ \cup run.result.read],
                           @.sawManifest, run.trace)]
    /\ UNCHANGED <<m, file, pendingTicks, pc, ingested, audit>>

NextManifest == ManifestWriter \/ TraceLogWriter \/ ReadManifest \/ ParseTraceFile

SpecManifest == Init /\ [][NextManifest]_vars

\* ------------------------------------------------ properties of the forest
UniqueIds(spans) == \A i, j \in DOMAIN spans : spans[i].SpanID = spans[j].SpanID => i = j

\* the span nodeMap keeps for an id: the last one of the list
KeptSpan(spans, id) ==
    spans[CHOOSE i \in DOMAIN spans :
             /\ spans[i].SpanID = id
             /\ \A j \in DOMAIN spans : j > i => spans[j].SpanID # id]

\* parentID names a span of the list
ResolvesIn(spans, parentID) ==
    parentID # EmptyID /\ parentID # ZeroSpanID /\ parentID \in SpanIds(spans)

RECURSIVE ReachesRoot(_, _, _)
ReachesRoot(spans, id, fuel) ==
    LET p == KeptSpan(spans, id).ParentSpanID
    IN IF ~ResolvesIn(spans, p) THEN TRUE
       ELSE IF fuel = 0 THEN FALSE
       ELSE ReachesRoot(spans, p, fuel - 1)

Acyclic(spans) == \A id \in SpanIds(spans) : ReachesRoot(spans, id, Len(spans))

RECURSIVE IsDescendant(_, _, _, _)
IsDescendant(h, n, a, fuel) ==
    IF h[n].Parent = Nil \/ fuel = 0 THEN FALSE
    ELSE h[n].Parent = a \/ IsDescendant(h, h[n].Parent, a, fuel - 1)

NoRepeats(s) == \A i, j \in DOMAIN s : s[i] = s[j] => i = j

Before(s, x, y) == IndexOf(s, x, 1) # 0 /\ IndexOf(s, y, 1) # 0 /\ IndexOf(s, x, 1) < IndexOf(s, y, 1)

\* v lists the nodes of the forest (rs, h) parent first, a subtree in one
\* block, siblings and roots in their stored order
IsPreOrder(h, rs, v) ==
    /\ NoRepeats(v)
    /\ \A i \in DOMAIN v :
          IF h[v[i]].Parent = Nil
          THEN v[i] \in Range(rs)
          ELSE LET k == IndexOf(v, h[v[i]].Parent, 1)
               IN /\ k # 0
                  /\ k < i
                  /\ \A j \in (k + 1)..(i - 1) : IsDescendant(h, v[j], h[v[i]].Parent, Len(v))
    /\ \A i, j \in DOMAIN rs : i < j /\ rs[i] \in Range(v) /\ rs[j] \in Range(v) => Before(v, rs[i], rs[j])
    /\ \A n \in Range(v) : \A i, j \in DOMAIN h[n].Children :
          LET c == h[n].Children
          IN i < j /\ c[i] \in Range(v) /\ c[j] \in Range(v) => Before(v, c[i], c[j])

VisibleSpans == [i \in DOMAIN m.visibleNodes |-> m.nodes[m.visibleNodes[i]].Span]

SameElements(s, t) ==
    /\ Len(s) = Len(t)
    /\ \A x \in Range(s) \cup Range(t) :
          Cardinality({i \in DOMAIN s : s[i] = x}) = Cardinality({i \in DOMAIN t : t[i] = x})

OnePerSpanPreOrder ==
    /\ Len(m.visibleNodes) = Len(ingested)
    /\ SameElements(VisibleSpans, ingested)
    /\ IsPreOrder(m.nodes, m.roots, m.visibleNodes)

\* C1 (as claimed): for every span list, also with repeated SpanIDs or cyclic
\* parents, flattening the freshly built forest yields exactly one entry per
\* input span, in pre-order.
C1_FlattenAnyInput == pc = "running" => OnePerSpanPreOrder

\* C1 (amended): when the SpanIDs are pairwise distinct and every chain of
\* parents ends at a root, flattening the freshly built forest yields exactly
\* one entry per input span, in pre-order.
C1_FlattenOnePerSpan ==
    pc = "running" /\ UniqueIds(ingested) /\ Acyclic(ingested) => OnePerSpanPreOrder

C1_Witness ==
    /\ pc = "running"
    /\ UniqueIds(ingested) /\ Acyclic(ingested)
    /\ Len(ingested) = 3
    /\ Len(m.visibleNodes) = 3
    /\ \E n \in DOMAIN m.nodes : m.nodes[n].Depth = 2


\* C2 (as claimed): every span whose ParentSpanID is the SpanID of a span of
\* the input has its node among the Children of the parent's node, one level
\* deeper than the parent.
C2_ChildOfResolvedParent ==
    pc = "running" =>
        \A i \in DOMAIN ingested :
            LET s == ingested[i]
            IN ResolvesIn(ingested, s.ParentSpanID) =>
                  /\ m.nodes[s.SpanID].Span = s
                  /\ s.SpanID \in Range(m.nodes[s.ParentSpanID].Children)
                  /\ m.nodes[s.SpanID].Depth = m.nodes[s.ParentSpanID].Depth + 1

\* C2 (amended): every span kept in the index (the last one of its SpanID)
\* whose ParentSpanID is the SpanID of a span of the input has its node among
\* the Children of the parent's node, and is one level deeper than the parent
\* when its chain of parents ends at a root.
C2_ChildOfResolvedParentKept ==
    pc = "running" =>
        \A n \in DOMAIN m.nodes :
            LET p == m.nodes[n].Span.ParentSpanID
            IN ResolvesIn(ingested, p) =>
                  /\ m.nodes[n].Span = KeptSpan(ingested, n)
                  /\ Cardinality({i \in DOMAIN m.nodes[p].Children : m.nodes[p].Children[i] = n}) = 1
                  /\ m.nodes[n].Parent = p
                  /\ (ReachesRoot(ingested, n, Len(ingested)) =>
                         m.nodes[n].Depth = m.nodes[p].Depth + 1)

C2_Witness ==
    /\ pc = "running"
    /\ \E n \in DOMAIN m.nodes :
          /\ m.nodes[n].Parent # Nil
          /\ m.nodes[m.nodes[n].Parent].Parent # Nil
          /\ m.nodes[n].Depth = 2
          /\ n \in Range(m.visibleNodes)

RootLikeSpans(spans) == {spans[i] : i \in {j \in DOMAIN spans : ~ResolvesIn(spans, spans[j].ParentSpanID)}}

RootSpans == {m.nodes[m.roots[i]].Span : i \in DOMAIN m.roots}

\* C3 (as claimed): the roots are exactly the spans of the input whose
\* ParentSpanID is empty, the zero sentinel or no SpanID of the input, each
\* once and at Depth 0.
C3_RootsAreUnparented ==
    pc = "running" =>
        /\ RootSpans = RootLikeSpans(ingested)
        /\ NoRepeats(m.roots)
        /\ \A i \in DOMAIN m.roots : m.nodes[m.roots[i]].Depth = 0

\* C3 (amended): the roots are exactly the spans kept in the index (the last
\* one of each SpanID) whose ParentSpanID is empty, the zero sentinel or no
\* SpanID of the input, each once and at Depth 0.
C3_RootsAreUnparentedKept ==
    pc = "running" =>
        /\ Range(m.roots) = {n \in SpanIds(ingested) :
                                ~ResolvesIn(ingested, KeptSpan(ingested, n).ParentSpanID)}
        /\ \A i \in DOMAIN m.roots : m.nodes[m.roots[i]].Span = KeptSpan(ingested, m.roots[i])
        /\ NoRepeats(m.roots)
        /\ \A i \in DOMAIN m.roots : m.nodes[m.roots[i]].Depth = 0
        /\ \A i \in DOMAIN m.roots : m.roots[i] \in Range(m.visibleNodes)

C3_Witness ==
    /\ pc = "running"
    /\ \E i, j, k \in DOMAIN m.roots :
          /\ m.nodes[m.roots[i]].Span.ParentSpanID = EmptyID
          /\ m.nodes[m.roots[j]].Span.ParentSpanID = ZeroSpanID
          /\ m.nodes[m.roots[k]].Span.ParentSpanID = UnknownID

\* ------------------------------------------------ properties of the viewer
InTree == pc = "running" /\ m.viewMode = TreeView /\ ~m.searchMode

CursorOnNode == m.cursor < Len(m.visibleNodes)

NodeCount(h) == Cardinality(DOMAIN h)

\* the nodes of the forest, collapsed or not
ForestNodes(mm) ==
    Range(FlattenTree([n \in DOMAIN mm.nodes |-> [mm.nodes[n] EXCEPT !.Expanded = TRUE]], mm.roots))

Without(v, h, node) ==
    LET Keep(x) == ~IsDescendant(h, x, node, NodeCount(h))
    IN SelectSeq(v, Keep)

Pressed(mm, key) == updateTreeView(mm, key, <<>>).m

\* C4: in the tree view, collapsing the expanded node under the cursor (h,
\* enter, l or space) removes from the visible list exactly its visible
\* descendants, the node keeping its index, and expanding it again (enter,
\* l or space) restores the previous visible list, whatever the Expanded
\* flags of its descendants.
C4_CollapseThenExpand ==
    InTree /\ CursorOnNode /\ HasChildren(m.nodes, NodeAtCursor(m))
           /\ m.nodes[NodeAtCursor(m)].Expanded =>
        \A down \in {"h", "enter", "l", " "} :
            LET c == Pressed(m, down)
            IN /\ c.visibleNodes = Without(m.visibleNodes, m.nodes, NodeAtCursor(m))
               /\ Len(c.visibleNodes) < Len(m.visibleNodes)
               /\ c.cursor = m.cursor
               /\ NodeAtCursor(c) = NodeAtCursor(m)
               /\ \A up \in {"enter", "l", " "} :
                     /\ Pressed(c, up).visibleNodes = m.visibleNodes
                     /\ Pressed(c, up).nodes = m.nodes
                     /\ Pressed(c, up).cursor = m.cursor

\* an expanded node under the cursor with a collapsed child that has children
C4_Witness ==
    /\ InTree /\ CursorOnNode
    /\ m.nodes[NodeAtCursor(m)].Expanded
    /\ \E c \in Range(m.nodes[NodeAtCursor(m)].Children) :
          ~m.nodes[c].Expanded /\ HasChildren(m.nodes, c)

RECURSIVE JumpedNext(_, _)
JumpedNext(mm, k) == IF k = 0 THEN mm ELSE JumpedNext(Pressed(mm, "e"), k - 1)

AncestorsExpanded(h, node) ==
    \A a \in DOMAIN h : IsDescendant(h, node, a, NodeCount(h)) => h[a].Expanded

\* C5 (as claimed): for every error node X of the forest, from any cursor
\* position and any combination of collapsed nodes, some number of 'e'
\* presses puts the cursor on X, with every ancestor of X expanded.
C5_ErrorJumpReachesEveryError ==
    InTree =>
        \A x \in ForestNodes(m) :
            isErrorNode(m.nodes, x) =>
                \E k \in 1..(NodeCount(m.nodes) + 1) :
                    LET j == JumpedNext(m, k)
                    IN /\ j.cursor < Len(j.visibleNodes)
                       /\ NodeAtCursor(j) = x
                       /\ AncestorsExpanded(j.nodes, x)

HasErrorStatus(s) == s.Code # "" /\ s.Code # StatusUnset /\ s.Code # "Ok"

NoErrorSpans == \A i \in DOMAIN ingested : ~HasErrorStatus(ingested[i])

\* C6: when no span of the loaded trace has an error status, errorCount is 0
\* and 'e' and 'E' change nothing of the model: cursor, focus area, view
\* mode, visible list, Expanded flags.
C6_NoErrorsJumpIsNoOp ==
    pc = "running" /\ NoErrorSpans =>
        /\ m.errorCount = 0
        /\ (m.viewMode = TreeView /\ ~m.searchMode =>
               \A key \in {"e", "E"} : updateTreeView(m, key, <<>>) = Ret(m, "nil"))

C6_Witness ==
    /\ InTree /\ NoErrorSpans
    /\ Len(ingested) >= 2
    /\ CursorOnNode
    /\ m.focusArea # FocusTree
    /\ \E n \in DOMAIN m.nodes : ~m.nodes[n].Expanded

\* C7: a poll that finds the file no larger than lastOffset returns no span
\* and leaves the whole model unchanged (lastOffset, forest, visible list,
\* cursor, manifest span count, metrics), whatever the file holds by then.
C7_PollWithoutGrowthIsNoOp ==
    pc = "running" /\ m.isLive /\ m.tracePath # "" /\ Len(file) <= m.lastOffset =>
        \A content \in Appended("fresh", file, Len(file) + MaxLines) :
            /\ checkFileUpdates(m, Len(file), content).newSpans = <<>>
            /\ UpdateTickMsg(m, Len(file), content, <<>>) = Ret(m, "tick")

\* a live viewer that has ingested spans by polling and is up to date
C7_Witness ==
    /\ pc = "running" /\ m.isLive
    /\ Len(file) = m.lastOffset
    /\ m.manifest.SpanCount >= 2
    /\ m.totalTokens > 0
    /\ m.errorCount > 0
    /\ \E n \in DOMAIN m.nodes : ~m.nodes[n].Expanded

ForestSpans == {m.nodes[n].Span : n \in ForestNodes(m)}

\* C8 (as claimed): the forest holds every span ingested so far, whatever was
\* collapsed when new spans arrived.
C8_NoIngestedSpanLost ==
    pc = "running" => \A i \in DOMAIN ingested : ingested[i] \in ForestSpans

\* a live-tail poll that parsed new spans and rebuilt the forest
IngestStep == pc = "running" /\ m.isLive /\ Len(ingested') > Len(ingested)

\* C9 (as claimed): after an ingestion the node under the cursor has the
\* SpanID of the node that was under the cursor before.
C9_SelectionKeptByIdentity ==
    [][IngestStep /\ CursorOnNode =>
          /\ m'.cursor < Len(m'.visibleNodes)
          /\ m'.nodes[m'.visibleNodes[m'.cursor + 1]].Span.SpanID
                = m.nodes[m.visibleNodes[m.cursor + 1]].Span.SpanID]_vars

Live == m.isLive /\ m.tracePath # ""

\* C10: while a live viewer runs exactly one tick is scheduled or being
\* handled (Init schedules one, a tick re-arms one, keys and resizes none);
\* a model that is not live never has one.
C10_OneTickInFlight ==
    /\ (pc = "running" /\ Live => pendingTicks = 1)
    /\ (pc = "running" /\ ~Live => pendingTicks = 0)
    /\ (pc # "running" => pendingTicks = 0)

\* a live viewer that has polled with and without new spans, resized, with a key handled
C10_Witness ==
    /\ pc = "running" /\ Live
    /\ pendingTicks = 1
    /\ m.ready
    /\ m.lastOffset > 0
    /\ Len(ingested) > 0
    /\ m.focusArea # FocusTree

\* ------------------------------------------------ properties of the diagram
Rendered == pc = "rendered"

Links == Range(audit.links)

EventChildren(p) ==
    {c \in DOMAIN audit.events : audit.events[c].ParentID = audit.events[p].SpanID}

EventSteps(p) == {c \in EventChildren(p) : isWorkflowStep(audit.events[c])}

HasStepIndex(i) ==
    /\ KeyStepIndex \in DOMAIN audit.events[i].Metadata
    /\ \/ audit.events[i].Metadata[KeyStepIndex].kind = "number"
       \/ audit.events[i].Metadata[KeyStepIndex].str = <<"1">>

StepIndexOf(i) ==
    IF audit.events[i].Metadata[KeyStepIndex].kind = "number"
    THEN audit.events[i].Metadata[KeyStepIndex].num ELSE 1

\* the order the chain must respect: by step_index where both steps have one,
\* by time where neither has
MustPrecede(a, b) ==
    \/ HasStepIndex(a) /\ HasStepIndex(b) /\ StepIndexOf(a) < StepIndexOf(b)
    \/ ~HasStepIndex(a) /\ ~HasStepIndex(b)
          /\ audit.events[a].Timestamp < audit.events[b].Timestamp

IsStepChain(p, c) ==
    /\ \A i, j \in DOMAIN c : i < j => ~MustPrecede(c[j], c[i])
    /\ <<p, c[1]>> \in Links
    /\ \A i \in 1..(Len(c) - 1) : <<c[i], c[i + 1]>> \in Links
    /\ \A i \in 2..Len(c) : <<p, c[i]>> \notin Links

\* C11: for a sequential-workflow container P with step children, the diagram
\* has P -> s1 and s(i) -> s(i+1) along the steps ordered by step_index
\* (chronologically among steps without one), and no P -> s(i) for i > 1.
C11_StepsAreChained ==
    Rendered =>
        \A p \in DOMAIN audit.events :
            isWorkflowSequential(audit.events[p]) /\ EventSteps(p) # {} =>
                \E c \in Perms(EventSteps(p)) : IsStepChain(p, c)

\* a container whose three steps are chained against their positions
C11_Witness ==
    /\ Rendered
    /\ \E p \in DOMAIN audit.events :
          /\ isWorkflowSequential(audit.events[p])
          /\ Cardinality(EventSteps(p)) = 3
          /\ \E a, b \in EventSteps(p) : a > b /\ <<a, b>> \in Links
          /\ \E a \in EventSteps(p) : ~HasStepIndex(a)

RECURSIVE UnderSequential(_, _)
UnderSequential(i, fuel) ==
    IF fuel = 0 \/ ~HasParentID(audit.events[i]) \/ audit.events[i].ParentID \notin EventIDs(audit.events)
    THEN FALSE
    ELSE LET p == SpanIDToIndex(audit.events, audit.events[i].ParentID)
         IN isWorkflowSequential(audit.events[p]) \/ UnderSequential(p, fuel - 1)

PlainParent(p) ==
    ~isWorkflowSequential(audit.events[p]) /\ ~UnderSequential(p, Len(audit.events))

LinkCount(a, b) == Cardinality({k \in DOMAIN audit.links : audit.links[k] = <<a, b>>})

\* C12 (as claimed): every event c whose ParentID is the SpanID of an event p
\* that is neither a sequential-workflow container nor below one has exactly
\* one link p -> c, also when the trace has a container elsewhere; an event
\* whose ParentID names no event has no incoming link.
C12_EveryResolvedPairIsLinked ==
    Rendered =>
        /\ \A p, c \in DOMAIN audit.events :
              c \in EventChildren(p) /\ PlainParent(p) => LinkCount(p, c) = 1
        /\ \A c \in DOMAIN audit.events :
              audit.events[c].ParentID \notin EventIDs(audit.events) =>
                  \A a \in DOMAIN audit.events : <<a, c>> \notin Links

\* the event the ParentID of event i names, 0 if it names none
EventParentOf(i) ==
    IF HasParentID(audit.events[i]) /\ audit.events[i].ParentID \in 1..Len(audit.events)
    THEN audit.events[i].ParentID ELSE 0

RECURSIVE ReachesNoParent(_, _)
ReachesNoParent(i, fuel) ==
    \/ EventParentOf(i) = 0
    \/ fuel > 0 /\ ReachesNoParent(EventParentOf(i), fuel - 1)

\* the parent relation of the events is a forest
EventForest == \A i \in DOMAIN audit.events : ReachesNoParent(i, Len(audit.events))

RECURSIVE LinkedFrom(_, _)
LinkedFrom(set, fuel) ==
    LET next == set \cup {l[2] : l \in {k \in Links : k[1] \in set}}
    IN IF fuel = 0 \/ next = set THEN set ELSE LinkedFrom(next, fuel - 1)

\* the events a path of one or more links leads to from event a
LinkReach(a) == LinkedFrom({l[2] : l \in {k \in Links : k[1] = a}}, Len(audit.events))

\* C13 (as claimed): when the parents of the events form a forest, the
\* diagram has no link twice and no directed cycle of links (so no link from
\* an event to itself), also with steps nested under steps and events of
\* equal Timestamp.
C13_NoRepeatedLinkNoCycle ==
    Rendered /\ EventForest =>
        /\ \A i, j \in DOMAIN audit.links : audit.links[i] = audit.links[j] => i = j
        /\ \A a \in DOMAIN audit.events : a \notin LinkReach(a)

Top3Durations == [i \in DOMAIN m.top3Slowest |-> m.nodes[m.top3Slowest[i]].DurationMs]

\* C14 (as claimed): the top-3 slowest list has at most 3 entries and each
\* entry has a strictly larger DurationMs than the next.
C14_Top3StrictlyDescending ==
    pc = "running" =>
        /\ Len(m.top3Slowest) <= 3
        /\ \A i \in 1..(Len(m.top3Slowest) - 1) : Top3Durations[i] > Top3Durations[i + 1]

\* C14 (amended): the top-3 slowest list has at most 3 entries and no entry
\* has a smaller DurationMs than the next; entries of equal DurationMs stand
\* side by side.
C14_Top3Descending ==
    pc = "running" =>
        /\ Len(m.top3Slowest) <= 3
        /\ \A i \in 1..(Len(m.top3Slowest) - 1) : Top3Durations[i] >= Top3Durations[i + 1]

\* four nodes were offered to updateTop3 and the list was cut to three
\* entries: two of equal DurationMs stand above a shorter one, and a node
\* processed before one of the entries is no longer in the list
C14_Witness ==
    /\ pc = "running"
    /\ Len(m.top3Slowest) = 3
    /\ Top3Durations[1] = Top3Durations[2]
    /\ Top3Durations[2] > Top3Durations[3]
    /\ \E i, j \in DOMAIN m.visibleNodes :
          /\ i < j
          /\ m.visibleNodes[j] \in Range(m.top3Slowest)
          /\ m.visibleNodes[i] \notin Range(m.top3Slowest)
          /\ \/ Len(m.nodes[m.visibleNodes[i]].Children) = 0
             \/ Contains(ToLower(m.nodes[m.visibleNodes[i]].Span.Name), SubLLM)

SpanTokens(s) ==
    LET attrs == GetAllAttributes(s)
        number(k) == IF k \in DOMAIN attrs /\ attrs[k].kind = "number" THEN attrs[k].num ELSE 0
    IN number(KeyStreamTokens) + number(KeyTotalTokens)

\* a span read twice from the file counts once
RECURSIVE TokensOf(_)
TokensOf(spans) ==
    IF spans = {} THEN 0
    ELSE LET s == CHOOSE x \in spans : TRUE
         IN SpanTokens(s) + TokensOf(spans \ {s})

ErrorsOf(spans) == Cardinality({s \in spans : HasErrorStatus(s)})

\* C15 (as claimed): the displayed totalTokens and errorCount are those of all
\* the spans ingested so far, whatever was collapsed now or when spans
\* arrived.
C15_MetricsOverAllIngested ==
    pc = "running" =>
        /\ m.totalTokens = TokensOf(Range(ingested))
        /\ m.errorCount = ErrorsOf(Range(ingested))

\* the key names bubbletea can deliver that some handler of the viewer names,
\* and one it does not
AllKeys ==
    SingleCharKeys \cup {"enter", "esc", "backspace", "tab", "shift+tab", "ctrl+c",
                         "up", "down", "left", "right", "f1"}

Searching == pc = "running" /\ m.viewMode = TreeView /\ m.searchMode

AfterKey(key) == UpdateKeyMsg(m, key, <<>>)

\* what no key does while the search input is open, and what Esc does
SearchKeepsTheRest(key) ==
    /\ AfterKey(key).cmd # "quit"
    /\ AfterKey(key).m.viewMode = m.viewMode
    /\ AfterKey(key).m.selectedTab = m.selectedTab
    /\ (key # "enter" => AfterKey(key).m.cursor = m.cursor)
    /\ (key = "esc" => /\ ~AfterKey(key).m.searchMode
                       /\ AfterKey(key).m.searchQuery = <<>>
                       /\ AfterKey(key).m.cursor = m.cursor)

\* the visible rows the query typed so far matches: the lower-cased query is
\* part of the lower-cased name, friendly name, attribute key or value, or
\* status code of the span
Hits(mm) ==
    {i \in DOMAIN mm.visibleNodes :
        /\ mm.searchQuery # <<>>
        /\ matchesSearch(mm.nodes, mm.visibleNodes[i], ToLower(mm.searchQuery))}

\* the first of them, counted from 1, or 0
FirstHit(mm) == IF Hits(mm) = {} THEN 0 ELSE CHOOSE i \in Hits(mm) : \A j \in Hits(mm) : i <= j

\* C16 (as claimed): while SearchMode is active no key but Enter changes the
\* cursor, no key changes the view mode, the focus or the tab or quits, and
\* Esc leaves SearchMode with the query discarded and the cursor in place.
C16_SearchInterceptsKeys ==
    Searching =>
        \A key \in AllKeys :
            SearchKeepsTheRest(key) /\ AfterKey(key).m.focusArea = m.focusArea

\* C16 (amended): as above, but only the keys other than Enter leave the
\* focus alone; Enter, when the query is not empty and matches a visible
\* node, moves the cursor to the first visible match and puts the focus on
\* the tree, and otherwise leaves the cursor and the focus where they were.
C16_SearchInterceptsKeysButEnter ==
    Searching =>
        \A key \in AllKeys :
            /\ SearchKeepsTheRest(key)
            /\ (key # "enter" => AfterKey(key).m.focusArea = m.focusArea)
            /\ AfterKey(key).m.focusArea \in {m.focusArea, FocusTree}
            /\ (AfterKey(key).m.focusArea # m.focusArea =>
                   /\ Len(AfterKey(key).m.searchMatches) > 0
                   /\ NodeAtCursor(AfterKey(key).m) = AfterKey(key).m.searchMatches[1].node)
            /\ (key = "enter" =>
                   IF FirstHit(m) > 0
                   THEN /\ AfterKey(key).m.cursor = FirstHit(m) - 1
                        /\ AfterKey(key).m.focusArea = FocusTree
                        /\ ~AfterKey(key).m.searchMode
                   ELSE /\ AfterKey(key).m.cursor = m.cursor
                        /\ AfterKey(key).m.focusArea = m.focusArea)

\* the search input open with a query typed, the focus off the tree, and
\* Enter about to move both the cursor and the focus
C16_Witness ==
    /\ Searching
    /\ m.searchQuery # <<>>
    /\ m.focusArea # FocusTree
    /\ AfterKey("enter").m.cursor # m.cursor
    /\ AfterKey("enter").m.focusArea = FocusTree

\* the cursor of mm is on the current match, which is visible below expanded
\* ancestors
OnCurrentMatch(mm) ==
    /\ mm.searchIndex >= 0 /\ mm.searchIndex < Len(mm.searchMatches)
    /\ mm.cursor < Len(mm.visibleNodes)
    /\ ~mm.searchMatches[mm.searchIndex + 1].stale
    /\ NodeAtCursor(mm) = mm.searchMatches[mm.searchIndex + 1].node
    /\ AncestorsExpanded(mm.nodes, NodeAtCursor(mm))

\* C17 (as claimed): after a search is confirmed with matches, or 'n' / 'N'
\* is pressed with a non-empty match list, the cursor is on
\* searchMatches[searchIndex], visible with all its ancestors Expanded, even
\* when an ancestor was collapsed after the search; 'n' after the last match
\* goes to the first, 'N' before the first to the last.
C17_CursorOnCurrentMatch ==
    pc = "running" /\ m.viewMode = TreeView =>
        /\ (m.searchMode /\ Len(AfterKey("enter").m.searchMatches) > 0 =>
               OnCurrentMatch(AfterKey("enter").m))
        /\ (~m.searchMode /\ Len(m.searchMatches) > 0 =>
               /\ OnCurrentMatch(AfterKey("n").m)
               /\ OnCurrentMatch(AfterKey("N").m)
               /\ AfterKey("n").m.searchIndex = (m.searchIndex + 1) % Len(m.searchMatches)
               /\ AfterKey("N").m.searchIndex =
                      (m.searchIndex + Len(m.searchMatches) - 1) % Len(m.searchMatches))

\* the changes of view mode the claim allows from a model mm
ViewStep(mm, to) ==
    \/ to = mm.viewMode
    \/ mm.viewMode = RunListView /\ to = TreeView /\ mm.runCursor < Len(mm.allRuns)
    \/ mm.viewMode = TreeView /\ to = DetailView /\ mm.cursor < Len(mm.visibleNodes)
    \/ mm.viewMode = TreeView /\ to = RunListView /\ Len(mm.allRuns) > 0
    \/ mm.viewMode = DetailView /\ to = TreeView

\* the keys that may change the view mode from a model mm
ViewKeys(mm) ==
    IF mm.viewMode = RunListView THEN {"enter", "l", "right"}
    ELSE IF mm.viewMode = TreeView THEN {"enter", "l", "d", "esc", "backspace"}
    ELSE {"esc", "backspace"}

\* C18: every message (key, tick) changes the view mode only along
\* RunListView <-> TreeView <-> DetailView: RunListView -> TreeView on a run
\* under the run cursor, DetailView -> TreeView on esc / backspace, TreeView ->
\* DetailView only with the cursor on a node, TreeView -> RunListView only
\* with runs loaded, never RunListView <-> DetailView in one message.
C18_ViewModeTransitions ==
    [][pc = "running" =>
          /\ (pc' = "running" => ViewStep(m, m'.viewMode))
          /\ \A key \in AllKeys : \A order \in KeyOrders(m, key) :
                LET r == UpdateKeyMsg(m, key, order)
                IN r.cmd # "quit" =>
                      /\ ViewStep(m, r.m.viewMode)
                      /\ (r.m.viewMode # m.viewMode => key \in ViewKeys(m))]_vars

\* the detail view of a node of a run opened from the run list
C18_Witness ==
    /\ pc = "running"
    /\ m.viewMode = DetailView
    /\ Len(m.allRuns) > 0
    /\ m.cursor < Len(m.visibleNodes)

IsNumberUnder(s, key) ==
    key \in DOMAIN GetAllAttributes(s) /\ GetAllAttributes(s)[key].kind = "number"

\* C19: totalTokens is the sum, over the nodes of the trace, of the numbers
\* under "agk.stream.tokens" and under "llm.usage.total_tokens", both counted
\* for a span that carries both; a value that is not a number counts 0.
C19_TotalTokensIsSum ==
    pc = "running" => m.totalTokens = TokensOf(ForestSpans)

\* a trace with a span carrying both keys, and a span with a string under a
\* key, all of its spans in the forest
C19_Witness ==
    /\ pc = "running"
    /\ Cardinality(ForestSpans) = Len(ingested)
    /\ m.totalTokens > 12
    /\ \E s \in ForestSpans : IsNumberUnder(s, KeyStreamTokens) /\ IsNumberUnder(s, KeyTotalTokens)
    /\ \E s \in ForestSpans :
          KeyStreamTokens \in DOMAIN GetAllAttributes(s) /\ ~IsNumberUnder(s, KeyStreamTokens)

\* the word occurs in the name, letters compared without regard to case
HasWord(name, word) ==
    \E i \in 0..(Len(name) - Len(word)) :
        \A k \in 1..Len(word) : ToLowerChar(name[i + k]) = ToLowerChar(word[k])

WordTool == <<"t", "o", "o", "l">>
WordLLM == <<"l", "l", "m">>
WordAgent == <<"a", "g", "e", "n", "t">>
WordWorkflow == <<"w", "o", "r", "k", "f", "l", "o", "w">>

\* C20: whatever the case of the letters, a name containing "tool" is a
\* tool_call; otherwise one containing "llm" an llm_call; otherwise one
\* containing "agent" a thought; otherwise one containing "workflow" a
\* decision; any other name a thought.
C20_ClassifyByPriority ==
    \A i \in DOMAIN audit.types :
        LET name == audit.types[i].SpanName
            type == audit.types[i].Type
        IN /\ (HasWord(name, WordTool) => type = EventTypeToolCall)
           /\ (~HasWord(name, WordTool) /\ HasWord(name, WordLLM) => type = EventTypeLLMCall)
           /\ (~HasWord(name, WordTool) /\ ~HasWord(name, WordLLM) /\ HasWord(name, WordAgent) =>
                  type = EventTypeThought)
           /\ (~HasWord(name, WordTool) /\ ~HasWord(name, WordLLM) /\ ~HasWord(name, WordAgent)
                  /\ HasWord(name, WordWorkflow) => type = EventTypeDecision)
           /\ (~HasWord(name, WordTool) /\ ~HasWord(name, WordLLM) /\ ~HasWord(name, WordAgent)
                  /\ ~HasWord(name, WordWorkflow) => type = EventTypeThought)

\* a name with "LLM" before "Tool" classified tool_call, and a name with
\* "WorkFlow" and nothing else classified decision
C20_Witness ==
    /\ Len(audit.types) = 2
    /\ HasWord(audit.types[1].SpanName, WordLLM)
    /\ audit.types[1].SpanName[1] = "L"
    /\ audit.types[1].Type = EventTypeToolCall
    /\ audit.types[2].Type = EventTypeDecision

LastValueUnder(s, key) ==
    LET at == {i \in DOMAIN s.Attributes : s.Attributes[i].Key = key}
    IN s.Attributes[CHOOSE i \in at : \A j \in at : i >= j].Value

\* C21 (as claimed): a key that occurs several times in the Attributes of a
\* span is looked up with the value of its last occurrence, by GetAttribute
\* as by GetAllAttributes.
C21_LookupsReturnLastOccurrence ==
    \A i \in DOMAIN file : \A key \in {KeyStreamTokens, KeyTotalTokens} :
        key \in DOMAIN GetAllAttributes(file[i]) =>
            /\ GetAllAttributes(file[i])[key] = LastValueUnder(file[i], key)
            /\ GetAttribute(file[i], key).ok
            /\ GetAttribute(file[i], key).val = LastValueUnder(file[i], key)

Looked == run.result.done

\* the files as the reads of readManifest found them
ManifestSeen == run.result.sawManifest

TraceSeen == run.result.sawTrace

TraceReadable == TraceFile \in run.result.read /\ TraceSeen.state = "ok"

TraceUnreadable == TraceFile \in run.result.read /\ TraceSeen.state # "ok"

\* C22: readManifest returns an error only when trace.jsonl cannot be read;
\* with manifest.json missing or not valid JSON it returns the summary
\* derived from trace.jsonl, without error; with a manifest.json that parses
\* it returns that manifest and does not read trace.jsonl.
C22_ManifestOrDerivedSummary ==
    Looked =>
        /\ (run.result.err => TraceUnreadable)
        /\ (ManifestSeen.state \in {"missing", "invalid"} =>
               /\ TraceFile \in run.result.read
               /\ TraceReadable =>
                      /\ ~run.result.err
                      /\ run.result.manifest.Status = "completed"
                      /\ run.result.manifest.SpanCount =
                             Cardinality({i \in DOMAIN TraceSeen.lines : TraceSeen.lines[i] # BadLine}))
        /\ (ManifestSeen.state = "ok" =>
               /\ ~run.result.err
               /\ run.result.manifest = ManifestSeen.content
               /\ TraceFile \notin run.result.read)

\* a manifest.json that does not parse next to a log of two objects, summed
\* up without error
C22_Witness ==
    /\ Looked
    /\ ManifestSeen.state = "invalid"
    /\ ~run.result.err
    /\ run.result.manifest.SpanCount = 2
    /\ TraceFile \in run.result.read

\* C29 (as claimed): the LLMCalls of the summary derived from the log is the
\* number of its spans that classifySpan classifies llm_call.
C29_LLMCallsMatchClassifier ==
    Looked /\ ManifestSeen.state # "ok" /\ TraceReadable =>
        run.result.manifest.LLMCalls =
            Cardinality({i \in DOMAIN TraceSeen.lines :
                            /\ TraceSeen.lines[i] # BadLine
                            /\ classifySpan(TraceSeen.lines[i].Name) = EventTypeLLMCall})

\* C23 (as claimed): whatever the writer appends between the steps of a
\* poll, no record is returned by two polls: the history of the spans handed
\* to the live viewer holds no span twice.
C23_NoRecordPolledTwice ==
    pc = "running" /\ Live =>
        \A i, j \in DOMAIN ingested : ingested[i] = ingested[j] => i = j

\* the records whose last piece lies before the offset of the viewer
RecordsPassed == {file[i].rec : i \in {j \in 1..m.lastOffset : j <= Len(file) /\ file[j].part = 2}}

\* C24 (as claimed): lastOffset does not move past a record that has no
\* newline yet, so every record the writer completes is ingested: the
\* offset is at the end of a record, and every record before it was handed
\* to the viewer.
C24_NoRecordSkipped ==
    pc = "running" =>
        /\ (m.lastOffset > 0 => file[m.lastOffset].part = 2)
        /\ \A rec \in RecordsPassed : ViewerSpan(rec, EmptyID) \in Range(ingested)

\* C25: whenever the visible list is not empty the cursor designates one of
\* its entries; in the tree view up (k) at the first entry and down (j) at
\* the last leave the cursor where it is, and anywhere else move it by one.
C25_CursorInRange ==
    pc = "running" /\ Len(m.visibleNodes) > 0 =>
        /\ m.cursor >= 0 /\ m.cursor < Len(m.visibleNodes)
        /\ (m.viewMode = TreeView /\ ~m.searchMode =>
               /\ \A key \in {"up", "k"} :
                     AfterKey(key).m.cursor = IF m.cursor = 0 THEN 0 ELSE m.cursor - 1
               /\ \A key \in {"down", "j"} :
                     AfterKey(key).m.cursor =
                         IF m.cursor = Len(m.visibleNodes) - 1 THEN m.cursor ELSE m.cursor + 1
               /\ \A key \in {"up", "k", "down", "j"} :
                     AfterKey(key).m.visibleNodes = m.visibleNodes)

\* the cursor on the last of three visible entries after an ingestion, a
\* node above it collapsed
C25_Witness ==
    /\ InTree
    /\ Len(ingested) > m.manifest.SpanCount - 1
    /\ Len(m.visibleNodes) >= 2
    /\ m.cursor = Len(m.visibleNodes) - 1
    /\ \E n \in DOMAIN m.nodes : ~m.nodes[n].Expanded

\* the nodes the metrics engine tracks: leaves and spans named like an LLM call
EligibleVisible ==
    {n \in Range(m.visibleNodes) :
        Len(m.nodes[n].Children) = 0 \/ Contains(ToLower(m.nodes[n].Span.Name), SubLLM)}

\* C26: over the nodes given to the metrics engine, the top 3 holds
\* min(3, n) distinct eligible nodes, no eligible node outside it lasts
\* longer than one inside it, and with n > 0 the slowest span is an eligible
\* node of the greatest duration and is the first entry of the top 3.
C26_Top3AndSlowestOfEligible ==
    pc = "running" =>
        LET n == Cardinality(EligibleVisible)
            top == m.top3Slowest
            dur(x) == m.nodes[x].DurationMs
        IN /\ Len(top) = (IF n < 3 THEN n ELSE 3)
           /\ \A i \in DOMAIN top : top[i] \in EligibleVisible
           /\ \A i, j \in DOMAIN top : i # j => top[i] # top[j]
           /\ \A x \in EligibleVisible \ Range(top) : \A i \in DOMAIN top : dur(x) <= dur(top[i])
           /\ (n > 0 =>
                  /\ m.slowestSpan \in EligibleVisible
                  /\ \A x \in EligibleVisible : dur(x) <= dur(m.slowestSpan)
                  /\ m.slowestSpan = top[1])

\* more than three eligible nodes, one of them an LLM call with children
C26_Witness ==
    /\ pc = "running"
    /\ Cardinality(EligibleVisible) > 3
    /\ \E x \in EligibleVisible : Len(m.nodes[x].Children) > 0
    /\ Len(m.top3Slowest) = 3
    /\ m.slowestSpan = m.top3Slowest[1]

\* where the input list holds the span a node was built from
InputPosition(id) ==
    CHOOSE i \in DOMAIN ingested :
        /\ ingested[i].SpanID = id
        /\ \A j \in DOMAIN ingested : j > i => ingested[j].SpanID # id

\* a list of nodes in ascending StartTime, equal times in input order
ByStartTimeStable(s) ==
    \A i, j \in DOMAIN s :
        i < j =>
            /\ m.nodes[s[i]].Span.StartTime <= m.nodes[s[j]].Span.StartTime
            /\ (m.nodes[s[i]].Span.StartTime = m.nodes[s[j]].Span.StartTime
                    => InputPosition(s[i]) < InputPosition(s[j]))

\* C27: the root list and every node's Children are in ascending StartTime
\* (an unparseable StartTime is the zero time), and nodes of equal StartTime
\* stand in the order of their spans in the input, whatever the run.
C27_SiblingsByStartTimeStable ==
    pc = "running" =>
        /\ ByStartTimeStable(m.roots)
        /\ \A n \in DOMAIN m.nodes : ByStartTimeStable(m.nodes[n].Children)

\* C28: Collect returns the events in ascending Timestamp, and the summary's
\* TotalDurationMs is the Timestamp of the last of them minus that of the
\* first, zero Timestamps (missing or unparseable StartTime) included.
C28_SortedAndDurationLastMinusFirst ==
    pc = "collected" /\ Len(audit.events) > 0 =>
        /\ \A i, j \in DOMAIN audit.events :
              i < j => audit.events[i].Timestamp <= audit.events[j].Timestamp
        /\ audit.summary.TotalDurationMs =
              SubMilliseconds(audit.events[Len(audit.events)].Timestamp, audit.events[1].Timestamp)

\* the model after one more key
Press(mm, key) == UpdateKeyMsg(mm, key, <<>>).m

FocusKeys == {"tab", "shift+tab"}

TabKeys == {"left", "right"}

\* left and right are inverse, wrap at both ends, and come back after five
TabsCycle ==
    /\ Press(Press(m, "right"), "left").selectedTab = m.selectedTab
    /\ Press(Press(m, "left"), "right").selectedTab = m.selectedTab
    /\ Press(Press(Press(Press(Press(m, "right"), "right"), "right"), "right"), "right").selectedTab
          = m.selectedTab
    /\ (m.selectedTab = TabTiming => Press(m, "right").selectedTab = TabOverview)
    /\ (m.selectedTab = TabOverview => Press(m, "left").selectedTab = TabTiming)
    /\ Press(m, "right").selectedTab # m.selectedTab
    /\ \A key \in TabKeys :
          /\ Press(m, key).cursor = m.cursor
          /\ Press(m, key).visibleNodes = m.visibleNodes
          /\ Press(m, key).focusArea = m.focusArea

\* C30: focusArea is one of the three areas and selectedTab one of the five
\* tabs; in the tree view tab and shift+tab are inverse, wrap at both ends
\* and come back after three, right and left do the same over the five tabs
\* (in the detail view too), and none of the four keys moves the cursor or
\* changes the visible list.
C30_FocusAndTabCycles ==
    pc = "running" =>
        /\ m.focusArea \in {FocusTree, FocusDetails, FocusMetadata}
        /\ m.selectedTab \in {TabOverview, TabPrompt, TabResponse, TabAttributes, TabTiming}
        /\ (m.viewMode = TreeView /\ ~m.searchMode =>
               /\ Press(Press(m, "tab"), "shift+tab").focusArea = m.focusArea
               /\ Press(Press(m, "shift+tab"), "tab").focusArea = m.focusArea
               /\ Press(Press(Press(m, "tab"), "tab"), "tab").focusArea = m.focusArea
               /\ (m.focusArea = FocusMetadata => Press(m, "tab").focusArea = FocusTree)
               /\ (m.focusArea = FocusTree => Press(m, "shift+tab").focusArea = FocusMetadata)
               /\ Press(m, "tab").focusArea # m.focusArea
               /\ \A key \in FocusKeys :
                     /\ Press(m, key).cursor = m.cursor
                     /\ Press(m, key).visibleNodes = m.visibleNodes
                     /\ Press(m, key).selectedTab = m.selectedTab
               /\ TabsCycle)
        /\ (m.viewMode = DetailView => TabsCycle)

\* the tree view with the focus on the last area and the last tab selected,
\* the cursor on the second row
C30_Witness ==
    /\ pc = "running"
    /\ m.viewMode = TreeView
    /\ m.focusArea = FocusMetadata
    /\ m.selectedTab = TabTiming
    /\ Len(m.visibleNodes) >= 2
    /\ m.cursor = 1

====
